---------------------------- MODULE Spec2Model ----------------------------
\* A model of the annotation-driven replication engine of kubernetes-replicator
\* (objectReplicator, replicatorProps) together with the version-guarded cluster
\* it writes to and the informer that feeds it.
\*
\* Conventions
\*   - a Go map is a function whose DOMAIN is the set of present keys;
\*   - an object key "ns/name" is the pair <<ns, name>>;
\*   - a comma separated annotation value is the set of its elements, an element
\*     "a/b" is the tuple <<"a", "b">> of its parts;
\*   - a regular expression is a token whose language is given by PatternLang;
\*   - a resourceVersion is a number, 0 standing for the empty string;
\*   - lists that the code fills by ranging over a Go map (random order) are
\*     built in the order of sort.Strings, one of the orders the code can take.
EXTENDS Integers, Sequences, FiniteSets, TLC

VARIABLES
    cluster,          \* key -> object: what the API server holds
    store,            \* key -> object: r.objectStore, the engine's local view
    namespaces,       \* r.namespaceStore: names of the known namespaces
    targetsFrom,      \* r.targetsFrom: source key -> list of dependent keys
    targetsTo,        \* r.targetsTo: source key -> list of installed target keys
    watchedTargets,   \* r.watchedTargets: source key -> literal targets
    watchedPatterns,  \* r.watchedPatterns: source key -> pattern targets
    fakeVersion,      \* next resourceVersion the cluster hands out
    pending,          \* keys with a watch event not yet delivered
    allowAll,         \* r.allowAll
    scenario,         \* which user objects the environment writes
    userOps,          \* number of user mutations done so far
    last,             \* the handler that ran last, its input and its port calls
    running,          \* controller -> the event whose handler it is inside
    second            \* the store, indexes and events of a second instance

vars == <<cluster, store, namespaces, targetsFrom, targetsTo, watchedTargets,
          watchedPatterns, fakeVersion, pending, allowAll, scenario, userOps, last,
          running, second>>

-----------------------------------------------------------------------------
\* Bounds of the model

\* user mutations (object writes, deletions, namespace deletions) per behaviour
MaxUserOps == 3
\* the same, where a source is deleted and made again
MaxUserOpsLong == 4
\* the same, where two instances of the engine run
MaxUserOpsTwo == 3
\* resourceVersions the cluster hands out where two instances run
MaxVersion == 16
\* longest targetsFrom / targetsTo list (the code lets duplicates pile up)
MaxList == 2

-----------------------------------------------------------------------------
\* Go maps

EmptyMap == [x \in {} |-> x]

Has(m, k) == k \in DOMAIN m

Put(m, k, v) == [x \in (DOMAIN m) \cup {k} |-> IF x = k THEN v ELSE m[x]]

Del(m, k) == [x \in (DOMAIN m) \ {k} |-> m[x]]

\* strings.SplitN(key, "/", 2)[0] and the "%s/%s" key of an object
KeyOf(o) == <<o.ns, o.name>>

\* the element of a singleton: Only({F(v) : v \in {X}}) is F(X), with the
\* bound v standing for the value of X
Only(s) == CHOOSE v \in s : TRUE

-----------------------------------------------------------------------------
\* The annotation vocabulary (annotations.go), prefixed by PrefixAnnotations

ReplicationSourceAnnotation    == "kubernetes-replicator/replicate-from"
ReplicationTargetsAnnotation   == "kubernetes-replicator/replicate-to"
TargetNamespacesAnnotation     == "kubernetes-replicator/replicate-to-namespaces"
ReplicateOnceAnnotation        == "kubernetes-replicator/replicate-once"
ReplicateOnceVersionAnnotation == "kubernetes-replicator/replicate-once-version"
ReplicationTimeAnnotation      == "kubernetes-replicator/replicated-at"
CreatedByAnnotation            == "kubernetes-replicator/replicated-by"
ReplicatedVersionAnnotation    == "kubernetes-replicator/replicated-version"
ReplicationAllowedAnnotation   == "kubernetes-replicator/replication-allowed"
AllowedNamespacesAnnotation    == "kubernetes-replicator/replication-allowed-namespaces"
CheckedAnnotation              == "#checked#"

AllAnnotations ==
    { ReplicationSourceAnnotation, ReplicationTargetsAnnotation,
      TargetNamespacesAnnotation, ReplicateOnceAnnotation,
      ReplicateOnceVersionAnnotation, ReplicationTimeAnnotation,
      CreatedByAnnotation, ReplicatedVersionAnnotation,
      ReplicationAllowedAnnotation, AllowedNamespacesAnnotation }

\* old name -> new name
DeprecatedAnnotations ==
    [a \in {"kubernetes-replicator/replicated-from-version"} |-> ReplicatedVersionAnnotation]

\* an annotation under the prefix that the vocabulary does not know
UnknownAnnotation == "kubernetes-replicator/other-annotations"

\* strings.HasPrefix(annotation, AnnotationsPrefix)
HasAnnotationsPrefix(a) ==
    a \in AllAnnotations \cup (DOMAIN DeprecatedAnnotations) \cup {UnknownAnnotation}

CopyLabels == [l \in {"managed-by"} |-> "kubernetes-replicator"]

\* time.Now().Format(time.RFC3339): one timestamp stands for all
Now == "T"

-----------------------------------------------------------------------------
\* The universe of names

Namespaces == {"n1", "n2", "n3"}
ObjNames   == {"s", "t", "u"}
Keys       == Namespaces \X ObjNames

\* validName: ^[0-9a-z.-]+$
validName(s) == s \in Namespaces \cup ObjNames

\* the regular expressions in use: the namespaces that ^(?:p)$ matches;
\* a token outside the domain does not compile
PatternLang ==
    [p \in {"n[23]", ".*"} |-> IF p = "n[23]" THEN {"n2", "n3"} ELSE Namespaces]

RegexCompiles(p) == p \in DOMAIN PatternLang

RegexMatch(p, ns) == RegexCompiles(p) /\ ns \in PatternLang[p]

\* a namespace element that contains a slash
hasSlash(s) == s \in {"n1/x"}

\* a plausible slip: only the error of ParseBool is looked at, not its value
ParseBoolValueIgnored(v) ==
    IF v \in {"true", "1", "t", "T", "TRUE", "True", "false", "0", "f", "F", "FALSE", "False"}
    THEN [ok |-> TRUE, val |-> TRUE]
    ELSE [ok |-> FALSE, val |-> FALSE]

\* strconv.ParseBool
ParseBool(v) ==
    IF v \in {"true", "1", "t", "T", "TRUE", "True"} THEN [ok |-> TRUE, val |-> TRUE]
    ELSE IF v \in {"false", "0", "f", "F", "FALSE", "False"} THEN [ok |-> TRUE, val |-> FALSE]
    ELSE [ok |-> FALSE, val |-> FALSE]

\* semver.NewVersion: the versions in use, as major*100 + minor*10 + patch
SemverTable ==
    [v \in {"0", "0.0.0", "1.0.0", "1.1.0"} |->
        CASE v = "0" -> 0 [] v = "0.0.0" -> 0 [] v = "1.0.0" -> 100 [] OTHER -> 110]

SemverOk(v) == v \in DOMAIN SemverTable

\* sort.Strings on keys: rank of "ns/name" in lexicographic order
NameRank(n) == CASE n = "s" -> 1 [] n = "t" -> 2 [] OTHER -> 3

NsRank(n) == CASE n = "n1" -> 1 [] n = "n2" -> 2 [] OTHER -> 3

KeyRank(k) == NsRank(k[1]) * 4 + NameRank(k[2])

RECURSIVE SortKeys(_)
\* the keys of a set as a sorted list
SortKeys(S) ==
    IF S = {} THEN <<>>
    ELSE LET k == CHOOSE x \in S : \A y \in S : KeyRank(x) <= KeyRank(y)
         IN <<k>> \o SortKeys(S \ {k})

\* the set of elements of a list
Range(l) == {l[i] : i \in 1..Len(l)}

-----------------------------------------------------------------------------
\* targetPattern (common.go)

\* pattern.Match(object)
Match(pattern, object) ==
    object.name = pattern.name /\ RegexMatch(pattern.namespace, object.ns)

\* pattern.MatchString(target)
MatchString(pattern, target) ==
    target[2] = pattern.name /\ RegexMatch(pattern.namespace, target[1])

\* pattern.MatchNamespace(namespace): the set holding the target, empty for ""
MatchNamespace(pattern, namespace) ==
    IF RegexMatch(pattern.namespace, namespace)
    THEN {<<namespace, pattern.name>>}
    ELSE {}

\* pattern.Targets(namespaces)
Targets(pattern, nss) ==
    {<<ns, pattern.name>> : ns \in {n \in nss : RegexMatch(pattern.namespace, n)}}

-----------------------------------------------------------------------------
\* Objects.  An object is a record
\*   [ns, name, rv, ann, labels, data]
\* ann and labels are Go maps, data is "" when empty.

\* the nil interface{} / nil *ObjectMeta
NoObject == [isNil |-> TRUE]

IsNil(o) == "isNil" \in DOMAIN o

\* resolveAnnotation: the annotation as "namespace/name"
resolveAnnotation(object, annotation) ==
    IF ~Has(object.ann, annotation) THEN [ok |-> FALSE, val |-> <<>>]
    ELSE LET val == object.ann[annotation]
         IN IF Len(val) >= 2 THEN [ok |-> TRUE, val |-> val]
            ELSE [ok |-> TRUE, val |-> <<object.ns, val[1]>>]

\* annotationRefersTo
annotationRefersTo(object, annotation, reference) ==
    IF ~Has(object.ann, annotation) THEN FALSE
    ELSE LET val == object.ann[annotation]
         IN IF Len(val) >= 2
            THEN val[1] = reference.ns /\ val[2] = reference.name
            ELSE object.ns = reference.ns /\ val[1] = reference.name

\* validPath: ^[0-9a-z.-]+/[0-9a-z.-]+$
validPath(val) == Len(val) = 2 /\ validName(val[1]) /\ validName(val[2])

\* isReplicationAllowedAnnotation, lines 96-133: what the replication-allowed
\* and replication-allowed-namespaces annotations of the source say
allowedByAnnotations(object, sourceObject) ==
    LET sa   == sourceObject.ann
        ok   == Has(sa, ReplicationAllowedAnnotation)
        okNs == Has(sa, AllowedNamespacesAnnotation)
        nss  == IF okNs THEN sa[AllowedNamespacesAnnotation] ELSE {}
    IN  IF ~allowAll /\ ~ok /\ ~okNs
            THEN [ok |-> FALSE, disallowed |-> TRUE]
        ELSE IF ok /\ ~ParseBool(sa[ReplicationAllowedAnnotation]).ok
            THEN [ok |-> FALSE, disallowed |-> FALSE]
        ELSE IF ok /\ ~ParseBool(sa[ReplicationAllowedAnnotation]).val
            THEN [ok |-> FALSE, disallowed |-> TRUE]
        ELSE IF okNs /\ \E ns \in nss : ns # "" /\ ~validName(ns) /\ ~RegexCompiles(ns)
            THEN [ok |-> FALSE, disallowed |-> FALSE]
        ELSE IF okNs /\ ~\E ns \in nss :
                    /\ ns # ""
                    /\ IF validName(ns) THEN ns = object.ns ELSE RegexMatch(ns, object.ns)
            THEN [ok |-> FALSE, disallowed |-> TRUE]
        ELSE [ok |-> TRUE, disallowed |-> FALSE]

\* a plausible slip: a source that is itself a replica may be replicated
allowedDespiteReplicateFrom(object, sourceObject) ==
    allowedByAnnotations(object, sourceObject)

\* a plausible slip: every error of the permission check counts as a refusal
isReplicationAllowedRefusing(object, sourceObject) ==
    Only({
        IF ~a.ok THEN [ok |-> FALSE, disallowed |-> TRUE]
        ELSE IF resolveAnnotation(sourceObject, ReplicationSourceAnnotation).ok
            THEN [ok |-> FALSE, disallowed |-> FALSE]
        ELSE [ok |-> TRUE, disallowed |-> FALSE]
        : a \in {allowedByAnnotations(object, sourceObject)}})

\* isReplicationAllowedAnnotation: (ok, disallowed); err is non-nil iff ~ok
isReplicationAllowedAnnotation(object, sourceObject) ==
    Only({
        IF ~a.ok THEN a
        ELSE IF resolveAnnotation(sourceObject, ReplicationSourceAnnotation).ok
            THEN [ok |-> FALSE, disallowed |-> FALSE]
        ELSE [ok |-> TRUE, disallowed |-> FALSE]
        : a \in {allowedByAnnotations(object, sourceObject)}})

\* a plausible slip: the replicate-once annotation is not looked at
onceIgnored(o) == [once |-> FALSE, err |-> FALSE]

\* the replicate-once annotation of one side: (present and true, illformed)
onceOf(o) ==
    IF ~Has(o.ann, ReplicateOnceAnnotation) THEN [once |-> FALSE, err |-> FALSE]
    ELSE LET b == ParseBool(o.ann[ReplicateOnceAnnotation])
         IN [once |-> b.ok /\ b.val, err |-> ~b.ok]

\* a plausible slip: the replicated version is not looked at, the data is
\* copied whenever the handler runs
needsDataUpdateAlways(object, sourceObject) == [ok |-> TRUE, once |-> FALSE]

\* a plausible slip: only the replicated version decides
needsDataUpdateWithoutOnce(object, sourceObject) ==
    IF ~Has(object.ann, ReplicatedVersionAnnotation) THEN [ok |-> TRUE, once |-> FALSE]
    ELSE IF object.ann[ReplicatedVersionAnnotation] = sourceObject.rv
        THEN [ok |-> FALSE, once |-> FALSE]
    ELSE [ok |-> TRUE, once |-> FALSE]

\* needsDataUpdate: (ok, once); err is non-nil iff ~ok
needsDataUpdate(object, sourceObject) ==
    LET ta == object.ann
        sa == sourceObject.ann
        hasOnce == onceOf(sourceObject).once \/ onceOf(object).once
        no  == [ok |-> FALSE, once |-> FALSE]
        yes == [ok |-> TRUE, once |-> FALSE]
        blocked == [ok |-> FALSE, once |-> TRUE]
    IN  IF ~Has(ta, ReplicatedVersionAnnotation) THEN yes
        ELSE IF ta[ReplicatedVersionAnnotation] = sourceObject.rv THEN no
        ELSE IF onceOf(sourceObject).err THEN no
        ELSE IF onceOf(object).err THEN no
        ELSE IF ~hasOnce THEN yes
        ELSE IF ~Has(sa, ReplicateOnceVersionAnnotation) THEN blocked
        ELSE IF ~SemverOk(sa[ReplicateOnceVersionAnnotation]) THEN no
        ELSE IF SemverTable[sa[ReplicateOnceVersionAnnotation]] = 0 THEN blocked
        ELSE IF ~Has(ta, ReplicateOnceVersionAnnotation) THEN yes
        ELSE IF ~SemverOk(ta[ReplicateOnceVersionAnnotation]) THEN no
        ELSE IF SemverTable[sa[ReplicateOnceVersionAnnotation]]
                    > SemverTable[ta[ReplicateOnceVersionAnnotation]] THEN yes
        ELSE blocked

\* needsCopyLabelsUpdate
needsCopyLabelsUpdate(object) ==
    \/ Cardinality(DOMAIN object.labels) # Cardinality(DOMAIN CopyLabels)
    \/ \E l \in DOMAIN CopyLabels :
            ~Has(object.labels, l) \/ object.labels[l] # CopyLabels[l]

\* getCopyLabels
getCopyLabels == CopyLabels

\* the target's annotation a differs from the source's
annotationDiffers(object, sourceObject, a) ==
    \/ Has(object.ann, a) # Has(sourceObject.ann, a)
    \/ Has(object.ann, a) /\ object.ann[a] # sourceObject.ann[a]

\* needsFromAnnotationsUpdate: (update, err)
needsFromAnnotationsUpdate(object, sourceObject) ==
    LET src == resolveAnnotation(sourceObject, ReplicationSourceAnnotation)
        fromDiffers ==
            \/ ~Has(object.ann, ReplicationSourceAnnotation)
            \/ object.ann[ReplicationSourceAnnotation] # src.val
    IN  IF ~src.ok THEN [update |-> FALSE, err |-> TRUE]
        ELSE IF ~validPath(src.val) \/ src.val = KeyOf(sourceObject)
            THEN [update |-> FALSE, err |-> TRUE]
        ELSE IF onceOf(sourceObject).err THEN [update |-> FALSE, err |-> TRUE]
        ELSE [update |-> \/ needsCopyLabelsUpdate(object)
                         \/ fromDiffers
                         \/ annotationDiffers(object, sourceObject, ReplicateOnceAnnotation),
              err |-> FALSE]

\* needsAllowedAnnotationsUpdate: (update, err)
needsAllowedAnnotationsUpdate(object, sourceObject) ==
    LET sa == sourceObject.ann
        update ==
            \/ needsCopyLabelsUpdate(object)
            \/ annotationDiffers(object, sourceObject, ReplicationAllowedAnnotation)
            \/ annotationDiffers(object, sourceObject, AllowedNamespacesAnnotation)
    IN  IF ~update THEN [update |-> FALSE, err |-> FALSE]
        ELSE IF /\ Has(sa, ReplicationAllowedAnnotation)
                /\ ~ParseBool(sa[ReplicationAllowedAnnotation]).ok
            THEN [update |-> FALSE, err |-> TRUE]
        ELSE IF /\ Has(sa, AllowedNamespacesAnnotation)
                /\ \E ns \in sa[AllowedNamespacesAnnotation] :
                        ns # "" /\ ~validName(ns) /\ ~RegexCompiles(ns)
            THEN [update |-> FALSE, err |-> TRUE]
        ELSE [update |-> TRUE, err |-> FALSE]

\* a plausible slip: any replicated-by annotation is taken for ownership
isReplicatedByAnyone(object, sourceObject) ==
    Has(object.ann, CreatedByAnnotation)

\* isReplicatedBy: the target was created by replication of this source
isReplicatedBy(object, sourceObject) ==
    /\ Has(object.ann, CreatedByAnnotation)
    /\ object.ann[CreatedByAnnotation] = KeyOf(sourceObject)

\* getReplicationTargets: (isNil, err, targets, targetPatterns).
\* isNil: both annotations are absent and the code returns nil slices; with
\* an annotation present it returns non-nil slices, empty or not.
\* A pattern is the record [namespace |-> regexp, name |-> name].
getReplicationTargets(object) ==
    LET a      == object.ann
        okTo   == Has(a, ReplicationTargetsAnnotation)
        okToNs == Has(a, TargetNamespacesAnnotation)
        key    == KeyOf(object)
        items  == IF okTo THEN a[ReplicationTargetsAnnotation] ELSE {}
        plain  == {n[1] : n \in {x \in items : Len(x) = 1}} \ {""}
        names  == IF okTo THEN {n \in plain : validName(n)} ELSE {object.name}
        qualified == {x \in items : Len(x) >= 2}
        nsItems == IF okToNs THEN a[TargetNamespacesAnnotation] ELSE {}
        nss    == IF okToNs THEN nsItems \ {""} ELSE {object.ns}
        joined   == {<<ns, n>> : ns \in {x \in nss : validName(x)}, n \in names} \ {key}
        joinedP  == {<<ns, n>> : ns \in {x \in nss : ~validName(x)}, n \in names}
        seen   == {key} \cup joined \cup joinedP
        rest   == qualified \ seen
        err    ==
            \/ \E n \in plain : ~validName(n)
            \/ \E ns \in nsItems : hasSlash(ns)
            \/ \E ns \in nss : ~validName(ns) /\ ~RegexCompiles(ns)
            \/ \E q \in rest :
                \/ Len(q) # 2
                \/ ~validName(q[2])
                \/ ~validName(q[1]) /\ ~RegexCompiles(q[1])
        targets  == joined \cup {q \in rest : Len(q) = 2 /\ validName(q[1])}
        patterns == joinedP \cup {q \in rest : Len(q) = 2 /\ ~validName(q[1])}
    IN  IF ~okTo /\ ~okToNs
            THEN [isNil |-> TRUE, err |-> FALSE, targets |-> {}, targetPatterns |-> {}]
        ELSE IF err
            THEN [isNil |-> TRUE, err |-> TRUE, targets |-> {}, targetPatterns |-> {}]
        ELSE [isNil |-> FALSE, err |-> FALSE, targets |-> targets,
              targetPatterns |-> {[namespace |-> q[1], name |-> q[2]] : q \in patterns}]

\* isReplicatedTo: (ok, err)
isReplicatedTo(object, targetObject) ==
    Only({
        IF t.err THEN [ok |-> FALSE, err |-> TRUE]
        ELSE [ok |-> \/ KeyOf(targetObject) \in t.targets
                     \/ \E p \in t.targetPatterns : Match(p, targetObject),
              err |-> FALSE]
        : t \in {getReplicationTargets(object)}})

\* a plausible slip: the deprecated names stay next to the new ones
updateDeprecatedAnnotationsKeepingOld(ann) ==
    LET old == (DOMAIN ann) \cap (DOMAIN DeprecatedAnnotations)
        invalid == \E a \in DOMAIN ann :
                    /\ a \notin DOMAIN DeprecatedAnnotations
                    /\ a \notin AllAnnotations
                    /\ HasAnnotationsPrefix(a)
        added ==
            [a \in (DOMAIN ann) \cup {DeprecatedAnnotations[o] : o \in old} |->
                IF a \in DOMAIN ann THEN ann[a]
                ELSE ann[CHOOSE o \in old : DeprecatedAnnotations[o] = a]]
    IN  IF Has(ann, CheckedAnnotation)
            THEN [ann |-> ann,
                  update |-> ann[CheckedAnnotation] = "update",
                  err |-> ann[CheckedAnnotation] \notin {"valid", "update"}]
        ELSE IF invalid
            THEN [ann |-> Put(ann, CheckedAnnotation, "error"), update |-> FALSE, err |-> TRUE]
        ELSE IF old = {}
            THEN [ann |-> Put(ann, CheckedAnnotation, "valid"), update |-> FALSE, err |-> FALSE]
        ELSE [ann |-> Put(added, CheckedAnnotation, "update"), update |-> TRUE, err |-> FALSE]

\* the annotations of an object that was written without any: the nil map,
\* where every name reads as absent and no name can be assigned
NilAnnotations == [isNil |-> TRUE]

\* updateDeprecatedAnnotations on an annotations map: (ann, update, err);
\* ann is the map as the call leaves it, the call changes it in place
updateDeprecatedAnnotations(ann) ==
    LET old == (DOMAIN ann) \cap (DOMAIN DeprecatedAnnotations)
        invalid == \E a \in DOMAIN ann :
                    /\ a \notin DOMAIN DeprecatedAnnotations
                    /\ a \notin AllAnnotations
                    /\ HasAnnotationsPrefix(a)
        renamed ==
            [a \in ((DOMAIN ann) \ old) \cup {DeprecatedAnnotations[o] : o \in old} |->
                IF a \in DOMAIN ann THEN ann[a]
                ELSE ann[CHOOSE o \in old : DeprecatedAnnotations[o] = a]]
    IN  IF Has(ann, CheckedAnnotation)
            THEN [ann |-> ann,
                  update |-> ann[CheckedAnnotation] = "update",
                  err |-> ann[CheckedAnnotation] \notin {"valid", "update"}]
        ELSE IF invalid
            THEN [ann |-> Put(ann, CheckedAnnotation, "error"), update |-> FALSE, err |-> TRUE]
        ELSE IF old = {}
            THEN [ann |-> Put(ann, CheckedAnnotation, "valid"), update |-> FALSE, err |-> FALSE]
        ELSE [ann |-> Put(renamed, CheckedAnnotation, "update"), update |-> TRUE, err |-> FALSE]

-----------------------------------------------------------------------------
\* The engine state inside a handler is the record
\*   e = [cluster, store, namespaces, targetsFrom, targetsTo, watchedTargets,
\*        watchedPatterns, fakeVersion, calls]
\* calls lists the object-port calls of the handler, each with its outcome.

\* one object-port call: the resourceVersion it carries (0: a create), the
\* annotations and data it sends, whether the cluster accepted it; held and
\* found are the resourceVersions the store and the cluster have for the key
\* when the call is made
PortCall(e, op, key, rv, ann, data, ok) ==
    [op |-> op, key |-> key, rv |-> rv, ann |-> ann, data |-> data, ok |-> ok,
     held |-> IF Has(e.store, key) THEN e.store[key].rv ELSE 0,
     found |-> IF Has(e.cluster, key) THEN e.cluster[key].rv ELSE 0]

\* a cluster that takes any write of an existing object, whatever its version
VersionIgnored(e, key, rv) == Has(e.cluster, key)

\* the API server accepts a write of the object at key that carries rv
VersionMatches(e, key, rv) == Has(e.cluster, key) /\ e.cluster[key].rv = rv

\* the cluster after a call: the object written with a fresh resourceVersion
Written(e, new, call) ==
    [e EXCEPT !.cluster = Put(@, KeyOf(new), [new EXCEPT !.rv = e.fakeVersion]),
              !.fakeVersion = @ + 1,
              !.calls = Append(@, call)]

Refused(e, call) == [e EXCEPT !.calls = Append(@, call)]

\* what the typed client returns next to an error: an empty object
ZeroObject ==
    [ns |-> "", name |-> "", rv |-> 0, ann |-> EmptyMap, labels |-> EmptyMap, data |-> ""]

\* secretActions.update: object with the source's data and the annotations
update(e, object, sourceObject, annotations) ==
    LET key == KeyOf(object)
        ok  == VersionMatches(e, key, object.rv)
        new == [object EXCEPT !.ann = annotations, !.data = sourceObject.data,
                              !.rv = e.fakeVersion]
        call == PortCall(e, "update", key, object.rv, annotations, sourceObject.data, ok)
    IN  IF ok THEN [e |-> Written(e, new, call), object |-> new, err |-> FALSE]
        ELSE [e |-> Refused(e, call), object |-> ZeroObject, err |-> TRUE]

\* secretActions.clear: object with no data and the annotations
clear(e, object, annotations) ==
    LET key == KeyOf(object)
        ok  == VersionMatches(e, key, object.rv)
        new == [object EXCEPT !.ann = annotations, !.data = "", !.rv = e.fakeVersion]
        call == PortCall(e, "clear", key, object.rv, annotations, "", ok)
    IN  IF ok THEN [e |-> Written(e, new, call), object |-> new, err |-> FALSE]
        ELSE [e |-> Refused(e, call), object |-> ZeroObject, err |-> TRUE]

\* secretActions.install: create when meta carries no resourceVersion, else
\* update; the data is that of dataObject, none when dataObject is nil
install(e, meta, sourceObject, dataObject) ==
    LET key  == KeyOf(meta)
        data == IF IsNil(dataObject) THEN "" ELSE dataObject.data
        ok   == IF meta.rv = 0 THEN ~Has(e.cluster, key)
                ELSE VersionMatches(e, key, meta.rv)
        new  == [ns |-> meta.ns, name |-> meta.name, rv |-> e.fakeVersion,
                 ann |-> meta.ann, labels |-> meta.labels, data |-> data]
        call == PortCall(e, "install", key, meta.rv, meta.ann, data, ok)
    IN  IF ok THEN [e |-> Written(e, new, call), object |-> new, err |-> FALSE]
        ELSE [e |-> Refused(e, call), object |-> ZeroObject, err |-> TRUE]

\* secretActions.delete, with the resourceVersion as precondition
delete(e, object) ==
    LET key == KeyOf(object)
        ok  == VersionMatches(e, key, object.rv)
        call == PortCall(e, "delete", key, object.rv, EmptyMap, "", ok)
    IN  IF ok THEN [e |-> [e EXCEPT !.cluster = Del(@, key), !.calls = Append(@, call)],
                    err |-> FALSE]
        ELSE [e |-> Refused(e, call), err |-> TRUE]

-----------------------------------------------------------------------------
\* The sub-procedures of the engine (objectReplicator)

\* delete(r.watchedTargets, key); delete(r.watchedPatterns, key)
dropWatched(e, key) ==
    [e EXCEPT !.watchedTargets = Del(@, key), !.watchedPatterns = Del(@, key)]

\* r.objectStore.Update(object)
storeUpdate(e, object) == [e EXCEPT !.store = Put(@, KeyOf(object), object)]

\* the outcome r of a port call taken over: the store holds the returned
\* object when the call succeeded and is left alone when it failed
afterCall(e, r, object) == IF r.err THEN r.e ELSE storeUpdate(r.e, r.object)

\* objectFromStore: (e, object, err); the validation of the annotations is
\* memoized in the stored object itself
objectFromStore(e, key, mustExist) ==
    IF ~Has(e.store, key)
    THEN [e |-> dropWatched(e, key), object |-> NoObject, err |-> mustExist]
    ELSE Only({
            LET o == [e.store[key] EXCEPT !.ann = u.ann]
            IN  IF u.err
                THEN [e |-> dropWatched(storeUpdate(e, o), key),
                      object |-> NoObject, err |-> TRUE]
                ELSE [e |-> storeUpdate(e, o), object |-> o, err |-> FALSE]
            : u \in {updateDeprecatedAnnotations(e.store[key].ann)}})

\* a plausible slip: the store drops the object whether or not the delete
\* succeeded
doDeleteObjectForgetting(e, object) ==
    Only({
        [e |-> [r.e EXCEPT !.store = Del(@, KeyOf(object))], err |-> r.err]
        : r \in {delete(e, object)}})

\* doDeleteObject: (e, err)
doDeleteObject(e, object) ==
    Only({
        IF r.err THEN [e |-> r.e, err |-> TRUE]
        ELSE [e |-> [r.e EXCEPT !.store = Del(@, KeyOf(object))], err |-> FALSE]
        : r \in {delete(e, object)}})

\* a plausible slip: the target is deleted whoever made it
deleteObjectOfAnyone(e, key, sourceObject) ==
    Only({
        IF f.err THEN f.e
        ELSE doDeleteObject(f.e, f.object).e
        : f \in {objectFromStore(e, key, TRUE)}})

\* deleteObject: deletes key if it is still replicated by sourceObject
deleteObject(e, key, sourceObject) ==
    Only({
        IF f.err THEN f.e
        ELSE IF ~isReplicatedBy(f.object, sourceObject) THEN f.e
        ELSE doDeleteObject(f.e, f.object).e
        : f \in {objectFromStore(e, key, TRUE)}})

\* a plausible slip: a cleared object keeps its replicated-version
clearedAnnotationsKeepingVersion(object) ==
    Put(Del(object.ann, CheckedAnnotation), ReplicationTimeAnnotation, Now)

\* the annotations doClearObject leaves
clearedAnnotations(object) ==
    Del(Del(Put(Del(object.ann, CheckedAnnotation), ReplicationTimeAnnotation, Now),
            ReplicatedVersionAnnotation),
        ReplicateOnceVersionAnnotation)

\* a plausible slip: nothing is cleared
doClearObjectSkipped(e, object) == [e |-> e, err |-> FALSE]

\* doClearObject: (e, err)
doClearObject(e, object) ==
    IF ~Has(object.ann, ReplicatedVersionAnnotation) THEN [e |-> e, err |-> FALSE]
    ELSE Only({[e |-> afterCall(e, r, object), err |-> r.err]
               : r \in {clear(e, object, clearedAnnotations(object))}})

\* a plausible slip: the dependent is cleared and forgotten
clearObjectForgetting(e, key, sourceObject) ==
    Only({
        IF f.err THEN [e |-> f.e, ok |-> FALSE]
        ELSE IF ~annotationRefersTo(f.object, ReplicationSourceAnnotation, sourceObject)
            THEN [e |-> f.e, ok |-> FALSE]
        ELSE [e |-> doClearObject(f.e, f.object).e, ok |-> FALSE]
        : f \in {objectFromStore(e, key, TRUE)}})

\* clearObject: (e, ok); ok when the dependent still refers to the source
clearObject(e, key, sourceObject) ==
    Only({
        IF f.err THEN [e |-> f.e, ok |-> FALSE]
        ELSE IF ~annotationRefersTo(f.object, ReplicationSourceAnnotation, sourceObject)
            THEN [e |-> f.e, ok |-> FALSE]
        ELSE [e |-> doClearObject(f.e, f.object).e, ok |-> TRUE]
        : f \in {objectFromStore(e, key, TRUE)}})

\* a plausible slip: the memo of the validation is copied with the rest
replicatedAnnotationsWithMemo(object, sourceObject) ==
    LET a1 == Put(Put(object.ann, ReplicationTimeAnnotation, Now),
                  ReplicatedVersionAnnotation, sourceObject.rv)
    IN  IF Has(sourceObject.ann, ReplicateOnceVersionAnnotation)
        THEN Put(a1, ReplicateOnceVersionAnnotation,
                 sourceObject.ann[ReplicateOnceVersionAnnotation])
        ELSE Del(a1, ReplicateOnceVersionAnnotation)

\* the annotations replicateObject leaves
replicatedAnnotations(object, sourceObject) ==
    LET a1 == Put(Put(Del(object.ann, CheckedAnnotation), ReplicationTimeAnnotation, Now),
                  ReplicatedVersionAnnotation, sourceObject.rv)
    IN  IF Has(sourceObject.ann, ReplicateOnceVersionAnnotation)
        THEN Put(a1, ReplicateOnceVersionAnnotation,
                 sourceObject.ann[ReplicateOnceVersionAnnotation])
        ELSE Del(a1, ReplicateOnceVersionAnnotation)

\* replicateObject (pull): the engine state after the call
replicateObject(e, object, sourceObject) ==
    Only({
        IF ~allowed.ok
        THEN IF allowed.disallowed /\ Has(object.ann, ReplicatedVersionAnnotation)
             THEN doClearObject(e, object).e ELSE e
        ELSE IF ~needsDataUpdate(object, sourceObject).ok THEN e
        ELSE afterCall(e, update(e, object, sourceObject,
                                 replicatedAnnotations(object, sourceObject)),
                       object)
        : allowed \in {isReplicationAllowedAnnotation(object, sourceObject)}})

\* doInstallObject: (e, err)
doInstallObject(e, meta, sourceObject, dataObject) ==
    Only({[e |-> afterCall(e, r, meta), err |-> r.err]
          : r \in {install(e, [meta EXCEPT !.ann = Del(@, CheckedAnnotation)],
                           sourceObject, dataObject)}})

\* a plausible slip: the resourceVersion of the target is not taken over
newMetaWithoutVersion(target, targetMeta, annotations) ==
    [ns |-> target[1], name |-> target[2], labels |-> getCopyLabels,
     ann |-> annotations, rv |-> 0]

\* the metadata installObject builds from scratch
newMeta(target, targetMeta, annotations) ==
    [ns |-> target[1], name |-> target[2], labels |-> getCopyLabels,
     ann |-> annotations,
     rv |-> IF IsNil(targetMeta) THEN 0 ELSE targetMeta.rv]

\* the annotation a of the source copied when present
copyIfPresent(annotations, sourceObject, a) ==
    IF Has(sourceObject.ann, a) THEN Put(annotations, a, sourceObject.ann[a])
    ELSE annotations

\* the annotation a of the source copied when present, removed when absent
copyOrRemove(annotations, sourceObject, a) ==
    IF Has(sourceObject.ann, a) THEN Put(annotations, a, sourceObject.ann[a])
    ELSE Del(annotations, a)

\* a plausible slip: the replicate-from of the source is not handed on
relayAnnotationsWithoutSource(sourceObject) ==
    copyIfPresent(Put(EmptyMap, CreatedByAnnotation, KeyOf(sourceObject)),
                  sourceObject, ReplicateOnceAnnotation)

\* the annotations of a target that relays the replicate-from of its source
relayAnnotations(sourceObject) ==
    copyIfPresent(
        Put(Put(EmptyMap, CreatedByAnnotation, KeyOf(sourceObject)),
            ReplicationSourceAnnotation,
            resolveAnnotation(sourceObject, ReplicationSourceAnnotation).val),
        sourceObject, ReplicateOnceAnnotation)

\* the metadata of an up-to-date target whose replication-allowed
\* annotations follow those of the source
allowedMeta(targetObject, sourceObject) ==
    [targetObject EXCEPT
        !.labels = getCopyLabels,
        !.ann = copyOrRemove(
                    copyOrRemove(@, sourceObject, ReplicationAllowedAnnotation),
                    sourceObject, AllowedNamespacesAnnotation)]

\* a plausible slip: the version of the source is not recorded
dataAnnotationsWithoutVersion(sourceObject) ==
    copyIfPresent(copyIfPresent(copyIfPresent(
        Put(Put(EmptyMap, ReplicationTimeAnnotation, Now),
            CreatedByAnnotation, KeyOf(sourceObject)),
        sourceObject, ReplicateOnceVersionAnnotation),
        sourceObject, ReplicationAllowedAnnotation),
        sourceObject, AllowedNamespacesAnnotation)

\* the annotations of a target installed with the data of its source
dataAnnotations(sourceObject) ==
    copyIfPresent(copyIfPresent(copyIfPresent(
        Put(Put(Put(EmptyMap, ReplicationTimeAnnotation, Now),
                CreatedByAnnotation, KeyOf(sourceObject)),
            ReplicatedVersionAnnotation, sourceObject.rv),
        sourceObject, ReplicateOnceVersionAnnotation),
        sourceObject, ReplicationAllowedAnnotation),
        sourceObject, AllowedNamespacesAnnotation)

\* no call of the port: installObject returns err
noInstall(err) ==
    [install |-> FALSE, err |-> err, meta |-> NoObject, dataObject |-> NoObject]

\* a plausible slip: a target that carries replicate-from is taken for one
\* whose data is to stay, and only its replication-allowed annotations are
\* brought up to date
installPlanKeepingData(target, targetObject, sourceObject) ==
    IF Has(sourceObject.ann, ReplicationSourceAnnotation)
    THEN Only({
            IF from.err THEN noInstall(TRUE)
            ELSE IF ~from.update THEN noInstall(FALSE)
            ELSE [install |-> TRUE, err |-> FALSE,
                  meta |-> newMeta(target, targetObject, relayAnnotations(sourceObject)),
                  dataObject |-> targetObject]
            : from \in {IF IsNil(targetObject) THEN [update |-> TRUE, err |-> FALSE]
                        ELSE needsFromAnnotationsUpdate(targetObject, sourceObject)}})
    ELSE IF IsNil(targetObject)
    THEN [install |-> TRUE, err |-> FALSE,
          meta |-> newMeta(target, targetObject, dataAnnotations(sourceObject)),
          dataObject |-> sourceObject]
    ELSE IF Has(targetObject.ann, ReplicationSourceAnnotation)
    THEN [install |-> TRUE, err |-> FALSE,
          meta |-> allowedMeta(targetObject, sourceObject),
          dataObject |-> targetObject]
    ELSE Only({
            IF ~needs.ok
            THEN Only({
                    IF ~needs.once \/ allowed.err \/ ~allowed.update THEN noInstall(TRUE)
                    ELSE [install |-> TRUE, err |-> FALSE,
                          meta |-> allowedMeta(targetObject, sourceObject),
                          dataObject |-> targetObject]
                    : allowed \in {needsAllowedAnnotationsUpdate(targetObject, sourceObject)}})
            ELSE [install |-> TRUE, err |-> FALSE,
                  meta |-> newMeta(target, targetObject, dataAnnotations(sourceObject)),
                  dataObject |-> sourceObject]
            : needs \in {needsDataUpdate(targetObject, sourceObject)}})

\* installObject, lines 588-696, once the target is looked up: what is to be
\* installed at the key target, whose current object is targetObject or nil
installPlan(target, targetObject, sourceObject) ==
    IF Has(sourceObject.ann, ReplicationSourceAnnotation)
    THEN \* the data must come from another object: keep the target's data
         Only({
            IF from.err THEN noInstall(TRUE)
            ELSE IF ~from.update THEN noInstall(FALSE)
            ELSE [install |-> TRUE, err |-> FALSE,
                  meta |-> newMeta(target, targetObject, relayAnnotations(sourceObject)),
                  dataObject |-> targetObject]
            : from \in {IF IsNil(targetObject) THEN [update |-> TRUE, err |-> FALSE]
                        ELSE needsFromAnnotationsUpdate(targetObject, sourceObject)}})
    ELSE Only({
            IF /\ ~IsNil(targetObject)
               /\ ~Has(targetObject.ann, ReplicationSourceAnnotation)
               /\ ~needs.ok
            THEN \* up to date: at most the replication-allowed annotations change
                 Only({
                    IF ~needs.once \/ allowed.err \/ ~allowed.update THEN noInstall(TRUE)
                    ELSE [install |-> TRUE, err |-> FALSE,
                          meta |-> allowedMeta(targetObject, sourceObject),
                          dataObject |-> targetObject]
                    : allowed \in {needsAllowedAnnotationsUpdate(targetObject, sourceObject)}})
            ELSE \* install with the data of the source
                 [install |-> TRUE, err |-> FALSE,
                  meta |-> newMeta(target, targetObject, dataAnnotations(sourceObject)),
                  dataObject |-> sourceObject]
            : needs \in {IF IsNil(targetObject) THEN [ok |-> TRUE, once |-> FALSE]
                         ELSE needsDataUpdate(targetObject, sourceObject)}})

\* installObject, lines 558-587: the target of the call, (e, object, err).
\* targetObject is nil when only the key target is known; the target is then
\* looked up in the store and, when it exists, must have been created by
\* sourceObject
installLookup(e, target, targetObject, sourceObject) ==
    IF ~IsNil(targetObject) THEN [e |-> e, object |-> targetObject, err |-> FALSE]
    ELSE Only({
            IF f.err THEN f
            ELSE IF ~IsNil(f.object) /\ ~isReplicatedBy(f.object, sourceObject)
                THEN [e |-> f.e, object |-> f.object, err |-> TRUE]
            ELSE f
            : f \in {objectFromStore(e, target, FALSE)}})

\* installObject (push): (e, err)
installObject(e, target, targetObject, sourceObject) ==
    Only({
        IF f.err THEN [e |-> f.e, err |-> TRUE]
        ELSE Only({
                IF ~p.install THEN [e |-> f.e, err |-> p.err]
                ELSE doInstallObject(f.e, p.meta, sourceObject, p.dataObject)
                : p \in {installPlan(IF IsNil(targetObject) THEN target
                                     ELSE KeyOf(targetObject),
                                     f.object, sourceObject)}})
        : f \in {installLookup(e, target, targetObject, sourceObject)}})

-----------------------------------------------------------------------------
\* ObjectAdded

RECURSIVE deleteTargets(_, _, _)
\* deleteObject on each key of a list, for the source sourceObject
deleteTargets(e, targets, sourceObject) ==
    IF targets = <<>> THEN e
    ELSE deleteTargets(deleteObject(e, Head(targets), sourceObject),
                       Tail(targets), sourceObject)

RECURSIVE installTargets(_, _, _)
\* installObject(t, nil, object) on each key of a list
installTargets(e, targets, object) ==
    IF targets = <<>> THEN e
    ELSE installTargets(installObject(e, Head(targets), NoObject, object).e,
                        Tail(targets), object)

\* a plausible slip: no target is taken for stale
noStaleTargets(e, key, t) == {}

\* the keys of targetsTo[key] that the annotations name no more
staleTargets(e, key, t) ==
    {target \in Range(e.targetsTo[key]) :
        /\ target \notin t.targets
        /\ ~\E p \in t.targetPatterns : MatchString(p, target)}

\* ObjectAdded, lines 313-344: the previously installed targets that the
\* annotations name no more are deleted, targetsTo[key] is dropped
dropOldTargets(e, key, object, t) ==
    IF ~Has(e.targetsTo, key) THEN e
    ELSE [deleteTargets(e, SortKeys(staleTargets(e, key, t)), object)
            EXCEPT !.targetsTo = Del(@, key)]

\* a plausible slip: a dependent is written again whatever version it holds
updateDependentAlways(e, replica, key, object) ==
    Only({
        IF f.err THEN [e |-> f.e, keep |-> FALSE]
        ELSE IF ~annotationRefersTo(f.object, ReplicationSourceAnnotation, object)
            THEN [e |-> f.e, keep |-> FALSE]
        ELSE [e |-> afterCall(f.e, update(f.e, f.object, object,
                                          replicatedAnnotations(f.object, object)),
                              f.object),
              keep |-> TRUE]
        : f \in {objectFromStore(e, replica, TRUE)}})

\* ObjectAdded, lines 353-374, for one dependent: (e, keep)
updateDependent(e, replica, key, object) ==
    Only({
        IF f.err THEN [e |-> f.e, keep |-> FALSE]
        ELSE IF ~resolveAnnotation(f.object, ReplicationSourceAnnotation).ok
            THEN [e |-> f.e, keep |-> FALSE]
        ELSE IF resolveAnnotation(f.object, ReplicationSourceAnnotation).val # key
            THEN [e |-> f.e, keep |-> FALSE]
        ELSE [e |-> replicateObject(f.e, f.object, object), keep |-> TRUE]
        : f \in {objectFromStore(e, replica, TRUE)}})

RECURSIVE updateDependents(_, _, _, _)
\* ObjectAdded, lines 353-374: (e, kept) over the sorted dependents
updateDependents(e, replicas, key, object) ==
    IF replicas = <<>> THEN [e |-> e, kept |-> <<>>]
    ELSE Only({
            Only({[e |-> rest.e,
                   kept |-> IF d.keep THEN <<Head(replicas)>> \o rest.kept
                            ELSE rest.kept]
                  : rest \in {updateDependents(d.e, Tail(replicas), key, object)}})
            : d \in {updateDependent(e, Head(replicas), key, object)}})

\* a plausible slip: the dependents of an added object are left as they are
keepDependents(e, key, object) == e

\* ObjectAdded, lines 345-381: the dependents of key are replicated again
refreshDependents(e, key, object) ==
    IF ~Has(e.targetsFrom, key) THEN e
    ELSE IF e.targetsFrom[key] = <<>> THEN e
    ELSE Only({[u.e EXCEPT !.targetsFrom =
                    IF u.kept # <<>> THEN Put(@, key, u.kept) ELSE Del(@, key)]
               : u \in {updateDependents(e, SortKeys(Range(e.targetsFrom[key])),
                                         key, object)}})

\* ObjectAdded, lines 482-502: the object is replicated from another
addedFrom(e, key, object, meta) ==
    IF ~Has(meta.ann, ReplicationSourceAnnotation) THEN e
    ELSE Only({
            Only({
                IF f.err THEN f.e
                ELSE IF IsNil(f.object) THEN doClearObject(f.e, object).e
                ELSE replicateObject(f.e, object, f.object)
                : f \in {objectFromStore(
                            [e EXCEPT !.targetsFrom =
                                Put(@, val, (IF Has(@, val) THEN @[val] ELSE <<>>) \o <<key>>)],
                            val, FALSE)}})
            : val \in {resolveAnnotation(meta, ReplicationSourceAnnotation).val}})

\* a plausible slip: a source the store holds is taken to replicate still
isStillReplicatedToWhileStored(f, meta) ==
    IF IsNil(f.object) THEN [ok |-> FALSE, err |-> FALSE]
    ELSE [ok |-> TRUE, err |-> FALSE]

\* ObjectAdded, lines 385-400: whether the source f of the created object
\* still replicates to it, (ok, err); no source is a source that does not
isStillReplicatedTo(f, meta) ==
    IF IsNil(f.object) THEN [ok |-> FALSE, err |-> FALSE]
    ELSE isReplicatedTo(f.object, meta)

\* ObjectAdded, lines 382-422: the object was created by another one
addedCreatedBy(e, key, object, meta) ==
    Only({
        IF f.err THEN f.e
        ELSE Only({
                IF to.err THEN f.e
                ELSE IF ~to.ok THEN doDeleteObject(f.e, object).e
                ELSE Only({
                        IF i.err THEN i.e
                        ELSE Only({
                                IF g.err THEN g.e
                                ELSE addedFrom(g.e, key, g.object, g.object)
                                : g \in {objectFromStore(i.e, key, TRUE)}})
                        : i \in {installObject(f.e, <<>>, object, f.object)}})
                : to \in {isStillReplicatedTo(f, meta)}})
        : f \in {objectFromStore(e, meta.ann[CreatedByAnnotation], FALSE)}})

\* a plausible slip: the namespaces of the targets are not looked up
allTargetsOf(e, key, t) ==
    SortKeys(t.targets)
        \o SortKeys((UNION {Targets(p, Namespaces) : p \in t.targetPatterns}
                        \ t.targets) \ {key})

\* the targets of a source whose namespace exists, literal ones first
existingTargetsOf(e, key, t) ==
    LET literal == {x \in t.targets : x[1] \in e.namespaces}
        matched == UNION {Targets(p, e.namespaces) : p \in t.targetPatterns}
    IN  SortKeys(literal) \o SortKeys((matched \ literal) \ {key})

\* ObjectAdded, lines 425-481: the object is replicated to other locations
addedSource(e, key, object, t) ==
    Only({
        installTargets(
            [e EXCEPT
                !.watchedTargets = IF t.targets # {} THEN Put(@, key, t.targets) ELSE @,
                !.watchedPatterns =
                    IF t.targetPatterns # {} THEN Put(@, key, t.targetPatterns) ELSE @,
                !.targetsTo =
                    IF existingTargets # <<>> THEN Put(@, key, existingTargets) ELSE @],
            existingTargets, object)
        : existingTargets \in {existingTargetsOf(e, key, t)}})

\* ObjectAdded, lines 307-503, for an object with valid annotations; object
\* and meta are the handler's two views of the added object
addedValid(e, key, object, meta) ==
    Only({
        IF t.err THEN e
        ELSE Only({
                IF Has(meta.ann, CreatedByAnnotation)
                    THEN addedCreatedBy(e5, key, object, meta)
                ELSE IF ~t.isNil THEN addedSource(e5, key, object, t)
                ELSE addedFrom(e5, key, object, meta)
                : e5 \in {refreshDependents(dropOldTargets(e, key, object, t),
                                            key, object)}})
        : t \in {getReplicationTargets(meta)}})

\* the outcome of the first part of ObjectAdded
checked(e, object, meta, stop) == [e |-> e, object |-> object, meta |-> meta, stop |-> stop]

\* ObjectAdded, lines 271-306: the annotations are validated, deprecated
\* ones are renamed and written back; (e, object, meta, stop)
addedChecked(e, object) ==
    Only({
        Only({
            IF u.err THEN checked(e1, NoObject, NoObject, TRUE)
            ELSE IF ~u.update THEN checked(e1, e1.store[KeyOf(object)],
                                           e1.store[KeyOf(object)], FALSE)
            ELSE Only({
                    IF r.err THEN checked(r.e, r.object, e1.store[KeyOf(object)], FALSE)
                    ELSE Only({
                            LET new == [r.object EXCEPT !.ann = v.ann]
                            IN  checked(storeUpdate(r.e, new), new, new, v.err)
                            : v \in {updateDeprecatedAnnotations(r.object.ann)}})
                    : r \in {update(e1, e1.store[KeyOf(object)], e1.store[KeyOf(object)],
                                    Del(u.ann, CheckedAnnotation))}})
            : e1 \in {storeUpdate(dropWatched(e, KeyOf(object)),
                                  [object EXCEPT !.ann = u.ann])}})
        : u \in {updateDeprecatedAnnotations(object.ann)}})

\* ObjectAdded(object): the whole handler.  object is the object of the
\* event, which is the one the store holds under its key.
ObjectAdded(e, object) ==
    Only({
        IF a.stop THEN a.e
        ELSE addedValid(a.e, KeyOf(object), a.object, a.meta)
        : a \in {addedChecked(e, object)}})

-----------------------------------------------------------------------------
\* ObjectDeleted

RECURSIVE clearDependents(_, _, _)
\* ObjectDeleted, lines 764-775: (e, kept) over the sorted dependents
clearDependents(e, replicas, object) ==
    IF replicas = <<>> THEN [e |-> e, kept |-> <<>>]
    ELSE Only({
            Only({[e |-> rest.e,
                   kept |-> IF c.ok THEN <<Head(replicas)>> \o rest.kept ELSE rest.kept]
                  : rest \in {clearDependents(c.e, Tail(replicas), object)}})
            : c \in {clearObject(e, Head(replicas), object)}})

\* ObjectDeleted, lines 757-782: the dependents of the deleted object are
\* cleared, those that still refer to it are kept in targetsFrom
clearAllDependents(e, key, object) ==
    IF ~Has(e.targetsFrom, key) THEN e
    ELSE Only({[c.e EXCEPT !.targetsFrom =
                    IF c.kept # <<>> THEN Put(@, key, c.kept) ELSE Del(@, key)]
               : c \in {clearDependents(e, SortKeys(Range(e.targetsFrom[key])), object)}})

\* a plausible slip: the patterns of the sources are not looked at
watchersOfLiteral(e, object) ==
    {source \in DOMAIN e.watchedTargets : KeyOf(object) \in e.watchedTargets[source]}

\* the sources that watch the location of object (the map todo)
watchersOf(e, object) ==
    {source \in DOMAIN e.watchedTargets : KeyOf(object) \in e.watchedTargets[source]}
    \cup
    {source \in DOMAIN e.watchedPatterns :
        \E p \in e.watchedPatterns[source] : Match(p, object)}

\* ObjectDeleted, lines 816-827, for one source of todo: (e, done)
installFrom(e, source, object) ==
    Only({
        IF f.err THEN [e |-> f.e, done |-> FALSE]
        ELSE Only({
                IF to.err THEN [e |-> dropWatched(f.e, source), done |-> FALSE]
                ELSE IF to.ok
                    THEN [e |-> installObject(f.e, KeyOf(object), NoObject, f.object).e,
                          done |-> TRUE]
                ELSE [e |-> f.e, done |-> FALSE]
                : to \in {isReplicatedTo(f.object, object)}})
        : f \in {objectFromStore(e, source, TRUE)}})

\* a plausible slip: the freed location is left to the next event of a
\* source
installLater(e, order, todo, object) == e

RECURSIVE installFirst(_, _, _, _)
\* ObjectDeleted, lines 814-828: the first source of todo, in the order the
\* map is ranged over, that still wants the location installs there
installFirst(e, order, todo, object) ==
    IF order = <<>> THEN e
    ELSE IF Head(order) \notin todo THEN installFirst(e, Tail(order), todo, object)
    ELSE Only({
            IF i.done THEN i.e ELSE installFirst(i.e, Tail(order), todo, object)
            : i \in {installFrom(e, Head(order), object)}})

\* a plausible slip: the indexes forget the deleted source, its targets stay
forgetAllTargets(e, key, object) ==
    [dropWatched(e, key) EXCEPT !.targetsTo = Del(@, key)]

\* ObjectDeleted, lines 744-756: the targets the deleted object was
\* replicated to are deleted, its entries in the indexes are dropped
deleteAllTargets(e, key, object) ==
    [dropWatched(IF Has(e.targetsTo, key)
                 THEN deleteTargets(e, e.targetsTo[key], object) ELSE e,
                 key)
        EXCEPT !.targetsTo = Del(@, key)]

\* ObjectDeleted(object): the whole handler; order is the order in which the
\* Go map todo happens to be ranged over
ObjectDeleted(e, object, order) ==
    Only({
        IF object.ns \notin e3.namespaces THEN e3
        ELSE installFirst(e3, order, watchersOf(e3, object), object)
        : e3 \in {clearAllDependents(deleteAllTargets(e, KeyOf(object), object),
                                     KeyOf(object), object)}})

-----------------------------------------------------------------------------
\* NamespaceAdded

\* a plausible slip: the source itself is not taken out
targetsInWithSelf(t, namespace, key) ==
    {x \in t.targets : x[1] = namespace}
    \cup UNION {MatchNamespace(p, namespace) : p \in t.targetPatterns}

\* the targets of a source that lie in namespace
targetsIn(t, namespace, key) ==
    ({x \in t.targets : x[1] = namespace}
     \cup UNION {MatchNamespace(p, namespace) : p \in t.targetPatterns}) \ {key}

\* a plausible slip: a new namespace is ignored
skipNamespace(e, object, namespace) == e

\* replicateToNamespace: the targets of object that lie in namespace
replicateToNamespace(e, object, namespace) ==
    IF Has(object.ann, CreatedByAnnotation) THEN dropWatched(e, KeyOf(object))
    ELSE Only({
            IF t.err THEN dropWatched(e, KeyOf(object))
            ELSE Only({
                    IF new = <<>> THEN e
                    ELSE [installTargets(e, new, object) EXCEPT !.targetsTo =
                            Put(@, KeyOf(object),
                                (IF Has(@, KeyOf(object)) THEN @[KeyOf(object)] ELSE <<>>)
                                    \o new)]
                    : new \in {SortKeys(targetsIn(t, namespace, KeyOf(object)))}})
            : t \in {getReplicationTargets(object)}})

\* a plausible slip: the patterns are not looked at
literalWatchersOfNamespace(e, namespace) ==
    {source \in DOMAIN e.watchedTargets :
        \E x \in e.watchedTargets[source] : x[1] = namespace}

\* the sources that watch a namespace (the map todo)
watchersOfNamespace(e, namespace) ==
    {source \in DOMAIN e.watchedTargets :
        \E x \in e.watchedTargets[source] : x[1] = namespace}
    \cup
    {source \in DOMAIN e.watchedPatterns :
        \E p \in e.watchedPatterns[source] : MatchNamespace(p, namespace) # {}}

RECURSIVE replicateAll(_, _, _, _)
\* NamespaceAdded, lines 194-202, over the sources of todo in the order the
\* map is ranged over
replicateAll(e, order, todo, namespace) ==
    IF order = <<>> THEN e
    ELSE IF Head(order) \notin todo THEN replicateAll(e, Tail(order), todo, namespace)
    ELSE Only({
            IF f.err THEN replicateAll(f.e, Tail(order), todo, namespace)
            ELSE replicateAll(replicateToNamespace(f.e, f.object, namespace),
                              Tail(order), todo, namespace)
            : f \in {objectFromStore(e, Head(order), TRUE)}})

\* NamespaceAdded(namespace): the whole handler
NamespaceAdded(e, namespace, order) ==
    replicateAll(e, order, watchersOfNamespace(e, namespace), namespace)

-----------------------------------------------------------------------------
\* The environment: what users write, per scenario

S  == <<"n1", "s">>
U  == <<"n1", "u">>
T  == <<"n2", "t">>

\* an annotations map from a set of <<name, value>> pairs
Ann(pairs) == [a \in {q[1] : q \in pairs} |-> (CHOOSE q \in pairs : q[1] = a)[2]]

\* a user object: the state a user gives the object at key
UserObject(key, pairs, data) ==
    [ns |-> key[1], name |-> key[2], rv |-> 0, ann |-> Ann(pairs),
     labels |-> EmptyMap, data |-> data]

\* pull: T asks for the data of S, S allows it (to all namespaces or to those
\* a pattern matches) or not
PullMenu ==
    { UserObject(S, {<<ReplicationAllowedAnnotation, "true">>}, "a"),
      UserObject(S, {<<ReplicationAllowedAnnotation, "true">>}, "b"),
      UserObject(S, {<<AllowedNamespacesAnnotation, {"n3"}>>}, "a"),
      UserObject(S, {<<AllowedNamespacesAnnotation, {"n[23]"}>>}, "b"),
      UserObject(T, {<<ReplicationSourceAnnotation, S>>}, "x") }

\* push: S and U name T (literally, through a namespace list or a pattern),
\* a user may own an object at T
PushMenu ==
    { UserObject(S, {<<ReplicationTargetsAnnotation, {T}>>}, "a"),
      UserObject(S, {<<ReplicationTargetsAnnotation, {T}>>}, "b"),
      UserObject(S, {<<ReplicationTargetsAnnotation, {<<"t">>}>>,
                     <<TargetNamespacesAnnotation, {"n[23]"}>>}, "a"),
      UserObject(U, {<<ReplicationTargetsAnnotation, {<<"t">>}>>,
                     <<TargetNamespacesAnnotation, {"n2"}>>}, "c"),
      UserObject(T, {}, "p") }

\* permission: T asks for the data of S; S says nothing, allows, refuses,
\* lists namespaces, or is itself a replica of n1/u
OpenMenu ==
    { UserObject(S, {}, "a"),
      UserObject(S, {<<ReplicationAllowedAnnotation, "true">>}, "a"),
      UserObject(S, {<<ReplicationAllowedAnnotation, "false">>}, "b"),
      UserObject(S, {<<AllowedNamespacesAnnotation, {"n3"}>>}, "a"),
      UserObject(S, {<<ReplicationAllowedAnnotation, "true">>,
                     <<AllowedNamespacesAnnotation, {"n[23]"}>>}, "b"),
      UserObject(S, {<<ReplicationAllowedAnnotation, "false">>,
                     <<AllowedNamespacesAnnotation, {"n2"}>>}, "a"),
      UserObject(S, {<<ReplicationAllowedAnnotation, "true">>,
                     <<AllowedNamespacesAnnotation, {"n3"}>>}, "b"),
      UserObject(S, {<<ReplicationAllowedAnnotation, "true">>,
                     <<ReplicationSourceAnnotation, <<"u">>>>}, "a"),
      UserObject(S, {<<ReplicationSourceAnnotation, <<"u">>>>}, "b"),
      UserObject(T, {<<ReplicationSourceAnnotation, S>>}, "x") }

\* once (pull): T asks for the data of S; S or T carries replicate-once, S
\* with or without a replicate-once-version
OnceMenu ==
    { UserObject(S, {<<ReplicationAllowedAnnotation, "true">>,
                     <<ReplicateOnceAnnotation, "true">>}, "a"),
      UserObject(S, {<<ReplicationAllowedAnnotation, "true">>,
                     <<ReplicateOnceAnnotation, "true">>,
                     <<ReplicateOnceVersionAnnotation, "1.0.0">>}, "b"),
      UserObject(S, {<<ReplicationAllowedAnnotation, "true">>,
                     <<ReplicateOnceAnnotation, "true">>,
                     <<ReplicateOnceVersionAnnotation, "1.1.0">>}, "c"),
      UserObject(S, {<<ReplicationAllowedAnnotation, "true">>,
                     <<ReplicateOnceVersionAnnotation, "1.0.0">>}, "d"),
      UserObject(S, {<<ReplicationAllowedAnnotation, "true">>,
                     <<ReplicateOnceAnnotation, "true">>,
                     <<ReplicateOnceVersionAnnotation, "0">>}, "e"),
      UserObject(T, {<<ReplicationSourceAnnotation, S>>}, "x"),
      UserObject(T, {<<ReplicationSourceAnnotation, S>>,
                     <<ReplicateOnceAnnotation, "true">>}, "x") }

\* once (push): S names T and carries replicate-once, with or without a
\* replicate-once-version and a replication-allowed annotation
PushOnceMenu ==
    { UserObject(S, {<<ReplicationTargetsAnnotation, {T}>>,
                     <<ReplicateOnceAnnotation, "true">>}, "a"),
      UserObject(S, {<<ReplicationTargetsAnnotation, {T}>>,
                     <<ReplicateOnceAnnotation, "true">>}, "b"),
      UserObject(S, {<<ReplicationTargetsAnnotation, {T}>>,
                     <<ReplicateOnceAnnotation, "true">>,
                     <<ReplicationAllowedAnnotation, "true">>}, "c"),
      UserObject(S, {<<ReplicationTargetsAnnotation, {T}>>,
                     <<ReplicateOnceAnnotation, "true">>,
                     <<AllowedNamespacesAnnotation, {"n3"}>>,
                     <<ReplicateOnceVersionAnnotation, "1.0.0">>}, "d"),
      UserObject(S, {<<ReplicationTargetsAnnotation, {T}>>,
                     <<ReplicateOnceAnnotation, "true">>,
                     <<ReplicateOnceVersionAnnotation, "1.1.0">>}, "e") }

\* relay: U pulls from S and pushes to T; S allows, or allows n3 only
RelayMenu ==
    { UserObject(S, {<<ReplicationAllowedAnnotation, "true">>}, "a"),
      UserObject(S, {<<ReplicationAllowedAnnotation, "true">>}, "b"),
      UserObject(S, {<<AllowedNamespacesAnnotation, {"n3"}>>}, "a"),
      UserObject(U, {<<ReplicationSourceAnnotation, S>>,
                     <<ReplicationTargetsAnnotation, {T}>>}, "m"),
      UserObject(U, {<<ReplicationSourceAnnotation, S>>,
                     <<ReplicationTargetsAnnotation, {<<"t">>}>>,
                     <<TargetNamespacesAnnotation, {"n2"}>>}, "m") }

\* a relay whose annotations change: it gains replicate-once, or is, at
\* times, a plain push source
RelayUpdateMenu ==
    RelayMenu \cup { UserObject(U, {<<ReplicationSourceAnnotation, S>>,
                                    <<ReplicationTargetsAnnotation, {T}>>,
                                    <<ReplicateOnceAnnotation, "false">>}, "m"),
                      UserObject(U, {<<ReplicationTargetsAnnotation, {T}>>}, "m") }

\* self: the targets S names include its own key, through a qualified name,
\* its namespace, a pattern matching its namespace, or its bare name
SelfMenu ==
    { UserObject(S, {<<ReplicationTargetsAnnotation, {S, <<"n2", "s">>}>>}, "a"),
      UserObject(S, {<<TargetNamespacesAnnotation, {"n1", "n2"}>>}, "b"),
      UserObject(S, {<<TargetNamespacesAnnotation, {".*"}>>}, "a"),
      UserObject(S, {<<ReplicationTargetsAnnotation, {<<".*", "s">>}>>}, "b"),
      UserObject(S, {<<ReplicationTargetsAnnotation, {<<"s">>}>>}, "c") }

\* order: the objects an engine finds in the cluster when it starts; S
\* permits or pushes, U pushes or relays, a user may have made T
OrderMenu ==
    { UserObject(S, {<<ReplicationAllowedAnnotation, "true">>}, "a"),
      UserObject(S, {<<ReplicationTargetsAnnotation, {T}>>}, "a"),
      UserObject(S, {<<ReplicationTargetsAnnotation, {<<"t">>}>>,
                     <<TargetNamespacesAnnotation, {"n[23]"}>>}, "b"),
      UserObject(U, {<<ReplicationTargetsAnnotation, {<<"t">>}>>,
                     <<TargetNamespacesAnnotation, {"n2"}>>}, "c"),
      UserObject(U, {<<ReplicationSourceAnnotation, S>>,
                     <<ReplicationTargetsAnnotation, {T}>>}, "m"),
      UserObject(T, {<<ReplicationSourceAnnotation, S>>}, "x"),
      UserObject(T, {}, "p") }

\* the clusters an engine may find: objects of the menu, no two at one key
OrderConfigs ==
    {[k \in {KeyOf(o) : o \in objs} |->
        [(CHOOSE o \in objs : KeyOf(o) = k) EXCEPT !.rv = NameRank(k[2])]]
     : objs \in {x \in SUBSET OrderMenu :
                    \A o1, o2 \in x : KeyOf(o1) = KeyOf(o2) => o1 = o2}}

Scenarios == {"pull", "push"}

\* the user operations of a scenario: one more where a source comes back,
\* one less where two instances run
UserOps(sc) ==
    CASE sc = "again" -> MaxUserOpsLong
      [] sc \in {"one", "two", "onepull", "twopull"} -> MaxUserOpsTwo
      [] OTHER -> MaxUserOps

\* orphans: S names T or names nothing; an object at T carrying
\* replicated-by = S is left over from an earlier run of the engine
OrphanMenu ==
    { UserObject(S, {<<ReplicationTargetsAnnotation, {T}>>}, "a"),
      UserObject(S, {}, "b"),
      UserObject(T, {<<CreatedByAnnotation, S>>,
                     <<ReplicationTimeAnnotation, "T">>,
                     <<ReplicatedVersionAnnotation, 1>>}, "a") }

\* deprecated annotations: T pulls from S and U pushes to n2/u under the
\* old name of replicated-version; T may carry an annotation under the
\* prefix that the vocabulary does not know
DeprecatedMenu ==
    { UserObject(T, {<<ReplicationSourceAnnotation, S>>,
                     <<"kubernetes-replicator/replicated-from-version", 1>>}, "x"),
      UserObject(T, {<<ReplicationSourceAnnotation, S>>}, "y"),
      UserObject(T, {<<UnknownAnnotation, "v">>}, "z"),
      UserObject(S, {<<ReplicationAllowedAnnotation, "true">>}, "a"),
      UserObject(S, {<<ReplicationAllowedAnnotation, "true">>,
                     <<"kubernetes-replicator/replicated-from-version", 1>>}, "b"),
      UserObject(U, {<<ReplicationTargetsAnnotation, {<<"n2", "u">>}>>,
                     <<"kubernetes-replicator/replicated-from-version", 1>>}, "c") }

\* objects written without annotations, whose map is nil, next to an object
\* with an empty map and a source that pushes to T
NilMenu ==
    { [UserObject(T, {}, "p") EXCEPT !.ann = NilAnnotations],
      [UserObject(U, {}, "c") EXCEPT !.ann = NilAnnotations],
      UserObject(T, {}, "q"),
      UserObject(S, {<<ReplicationTargetsAnnotation, {T}>>}, "a") }

\* what an engine that starts again may find: sources that push to T or to
\* nothing, and targets that an earlier run made from S or from U
SyncMenu ==
    { UserObject(S, {<<ReplicationTargetsAnnotation, {T}>>}, "a"),
      UserObject(S, {<<ReplicationTargetsAnnotation, {<<"t">>}>>,
                     <<TargetNamespacesAnnotation, {"n[23]"}>>}, "a"),
      UserObject(S, {}, "b"),
      UserObject(U, {<<ReplicationTargetsAnnotation, {<<"t">>}>>,
                     <<TargetNamespacesAnnotation, {"n2"}>>}, "c"),
      UserObject(T, {<<CreatedByAnnotation, S>>,
                     <<ReplicationTimeAnnotation, "T">>,
                     <<ReplicatedVersionAnnotation, NameRank("s")>>}, "a"),
      UserObject(T, {<<CreatedByAnnotation, U>>,
                     <<ReplicationTimeAnnotation, "T">>,
                     <<ReplicatedVersionAnnotation, NameRank("u")>>}, "c") }

\* parse errors: S pushes to T, or carries a target name that is no name
\* or a namespace pattern that does not compile
ParseMenu ==
    { UserObject(S, {<<ReplicationTargetsAnnotation, {T}>>}, "a"),
      UserObject(S, {<<ReplicationTargetsAnnotation, {<<"t_">>}>>}, "b"),
      UserObject(S, {<<ReplicationTargetsAnnotation, {<<"t">>}>>,
                     <<TargetNamespacesAnnotation, {"n["}>>}, "c"),
      UserObject(S, {}, "d") }

\* owned: an object at U that carries replicated-by = S and names targets
\* of its own, literally, through a pattern, or in a way that does not
\* parse; U as a plain source of T; S pushes to U
OwnedMenu ==
    { UserObject(U, {<<ReplicationTargetsAnnotation, {T}>>}, "a"),
      UserObject(U, {<<CreatedByAnnotation, S>>,
                     <<ReplicationTargetsAnnotation, {T}>>}, "b"),
      UserObject(U, {<<CreatedByAnnotation, S>>,
                     <<TargetNamespacesAnnotation, {"n[23]"}>>}, "c"),
      UserObject(U, {<<CreatedByAnnotation, S>>,
                     <<ReplicationTargetsAnnotation, {<<"t_">>}>>}, "d"),
      UserObject(S, {<<ReplicationTargetsAnnotation, {U}>>}, "s") }

\* empty target sets: T pulls from S and carries a replicate-to that holds
\* only an empty element or only its own key, or none at all; S allows
EmptyMenu ==
    { UserObject(T, {<<ReplicationSourceAnnotation, S>>,
                     <<ReplicationTargetsAnnotation, {<<"">>}>>}, "x"),
      UserObject(T, {<<ReplicationSourceAnnotation, S>>,
                     <<ReplicationTargetsAnnotation, {T}>>}, "y"),
      UserObject(T, {<<ReplicationSourceAnnotation, S>>}, "z"),
      UserObject(S, {<<ReplicationAllowedAnnotation, "true">>}, "a"),
      UserObject(S, {<<ReplicationAllowedAnnotation, "true">>}, "b") }

\* malformed permissions: T pulls from S; S allows, or carries a
\* replication-allowed that is no boolean, a replication-allowed-namespaces
\* pattern that does not compile, or such a pattern next to a refusal
MalformedMenu ==
    { UserObject(S, {<<ReplicationAllowedAnnotation, "true">>}, "a"),
      UserObject(S, {<<ReplicationAllowedAnnotation, "yes">>}, "b"),
      UserObject(S, {<<AllowedNamespacesAnnotation, {"n2", "n["}>>}, "c"),
      UserObject(S, {<<ReplicationAllowedAnnotation, "false">>,
                     <<AllowedNamespacesAnnotation, {"n["}>>}, "d"),
      UserObject(T, {<<ReplicationSourceAnnotation, S>>}, "x") }

Menu(sc) ==
    CASE sc = "pull" -> PullMenu
      [] sc = "push" -> PushMenu
      [] sc = "open" -> OpenMenu
      [] sc = "once" -> OnceMenu
      [] sc = "pushonce" -> PushOnceMenu
      [] sc = "relay" -> RelayMenu
      [] sc = "self" -> SelfMenu
      [] sc = "order" -> OrderMenu
      [] sc = "again" -> PullMenu
      [] sc = "relayupdate" -> RelayUpdateMenu
      [] sc = "orphan" -> OrphanMenu
      [] sc \in {"one", "two"} -> OrphanMenu
      [] sc \in {"onepull", "twopull"} -> PullMenu
      [] sc = "deprecated" -> DeprecatedMenu
      [] sc = "nil" -> NilMenu
      [] sc = "sync" -> SyncMenu
      [] sc = "parse" -> ParseMenu
      [] sc = "owned" -> OwnedMenu
      [] sc = "empty" -> EmptyMenu
      [] sc = "malformed" -> MalformedMenu

\* the namespaces that exist when the engine starts
InitialNamespaces(sc) ==
    CASE sc \in {"push", "relay", "self", "owned"} -> {{"n1"}, {"n1", "n2"}}
      [] OTHER -> {{"n1", "n2"}}

\* the namespaces that come and go
ScenarioNamespaces(sc) ==
    CASE sc = "push" -> {"n1", "n2", "n3"}
      [] OTHER -> {"n1", "n2"}

\* the values of the allow-all flag the engine is started with
AllowAllIn(sc) == IF sc = "open" THEN BOOLEAN ELSE {FALSE}

-----------------------------------------------------------------------------
\* The state machine

\* InitStructure, and an informer that has listed an empty cluster
InitIn(scs) ==
    /\ scenario \in scs
    /\ allowAll \in AllowAllIn(scenario)
    /\ namespaces \in InitialNamespaces(scenario)
    /\ cluster = EmptyMap
    /\ store = EmptyMap
    /\ targetsFrom = EmptyMap
    /\ targetsTo = EmptyMap
    /\ watchedTargets = EmptyMap
    /\ watchedPatterns = EmptyMap
    /\ fakeVersion = 1
    /\ pending = {}
    /\ userOps = 0
    /\ last = [handler |-> "none", key |-> <<>>, calls |-> <<>>]
    /\ running = EmptyMap
    /\ second = EmptyMap

Init == InitIn(Scenarios)

\* the engine state at the start of a handler
Engine ==
    [cluster |-> cluster, store |-> store, namespaces |-> namespaces,
     targetsFrom |-> targetsFrom, targetsTo |-> targetsTo,
     watchedTargets |-> watchedTargets, watchedPatterns |-> watchedPatterns,
     fakeVersion |-> fakeVersion, calls |-> <<>>]

\* the keys a handler has written: each gets a watch event
WrittenKeys(e) == {e.calls[i].key : i \in {j \in 1..Len(e.calls) : e.calls[j].ok}}

\* the lists of the indexes stay within the bound of the model
ListsBounded(e) ==
    /\ \A k \in DOMAIN e.targetsFrom : Len(e.targetsFrom[k]) <= MaxList
    /\ \A k \in DOMAIN e.targetsTo : Len(e.targetsTo[k]) <= MaxList

\* the state a handler leaves
Commit(e, handler, key) ==
    /\ ListsBounded(e)
    /\ cluster' = e.cluster
    /\ store' = e.store
    /\ targetsFrom' = e.targetsFrom
    /\ targetsTo' = e.targetsTo
    /\ watchedTargets' = e.watchedTargets
    /\ watchedPatterns' = e.watchedPatterns
    /\ fakeVersion' = e.fakeVersion
    /\ last' = [handler |-> handler, key |-> key, calls |-> e.calls]

\* the orders in which a Go map with the keys D can be ranged over
Orders(D) ==
    {o \in [1..Cardinality(D) -> D] : \A i, j \in DOMAIN o : i # j => o[i] # o[j]}

WatchingSources == (DOMAIN watchedTargets) \cup (DOMAIN watchedPatterns)

\* a user creates or replaces an object
UserWrite ==
    /\ userOps < UserOps(scenario)
    /\ \E o \in Menu(scenario) :
        /\ o.ns \in namespaces
        /\ IF Has(cluster, KeyOf(o))
               THEN [cluster[KeyOf(o)] EXCEPT !.rv = 0] # o
               ELSE TRUE
        /\ cluster' = Put(cluster, KeyOf(o), [o EXCEPT !.rv = fakeVersion])
        /\ pending' = pending \cup {KeyOf(o)}
    /\ fakeVersion' = fakeVersion + 1
    /\ userOps' = userOps + 1
    /\ last' = [handler |-> "none", key |-> <<>>, calls |-> <<>>]
    /\ UNCHANGED <<store, namespaces, targetsFrom, targetsTo, watchedTargets,
                   watchedPatterns, allowAll, scenario,
                   running, second>>

\* a user deletes an object
UserDelete ==
    /\ userOps < UserOps(scenario)
    /\ \E key \in DOMAIN cluster :
        /\ cluster' = Del(cluster, key)
        /\ pending' = pending \cup {key}
    /\ userOps' = userOps + 1
    /\ last' = [handler |-> "none", key |-> <<>>, calls |-> <<>>]
    /\ UNCHANGED <<store, namespaces, targetsFrom, targetsTo, watchedTargets,
                   watchedPatterns, fakeVersion, allowAll, scenario,
                   running, second>>

\* the informer delivers the add or update event of an object: the store
\* takes the object, then ObjectAdded runs
DeliverAdded ==
    \E key \in pending :
        /\ Has(cluster, key)
        /\ \E e \in {ObjectAdded([Engine EXCEPT !.store = Put(@, key, cluster[key])],
                                   cluster[key])} :
               /\ Commit(e, "ObjectAdded", key)
               /\ pending' = (pending \ {key}) \cup WrittenKeys(e)
        /\ UNCHANGED <<namespaces, allowAll, scenario, userOps, running, second>>

\* the informer delivers the delete event of an object: the store drops the
\* object, then ObjectDeleted runs
DeliverDeleted ==
    \E key \in pending :
        /\ ~Has(cluster, key)
        /\ \E order \in Orders(WatchingSources) :
            \E e \in {ObjectDeleted([Engine EXCEPT !.store = Del(@, key)],
                                     [ns |-> key[1], name |-> key[2]], order)} :
                /\ Commit(e, "ObjectDeleted", key)
                /\ pending' = (pending \ {key}) \cup WrittenKeys(e)
        /\ UNCHANGED <<namespaces, allowAll, scenario, userOps, running, second>>

\* the periodic resync delivers an object of the store again
Resync ==
    \E key \in DOMAIN store :
        /\ \E e \in {ObjectAdded(Engine, store[key])} :
               /\ Commit(e, "ObjectAdded", key)
               /\ pending' = pending \cup WrittenKeys(e)
        /\ UNCHANGED <<namespaces, allowAll, scenario, userOps, running, second>>

\* a namespace is created, or its add event is delivered again: the
\* namespace store takes it, then NamespaceAdded runs
NamespaceCreated ==
    \E ns \in ScenarioNamespaces(scenario) :
        /\ namespaces' = namespaces \cup {ns}
        /\ \E order \in Orders(WatchingSources) :
            \E e \in {NamespaceAdded([Engine EXCEPT !.namespaces = @ \cup {ns}], ns, order)} :
                /\ Commit(e, "NamespaceAdded", <<ns>>)
                /\ pending' = pending \cup WrittenKeys(e)
        /\ UNCHANGED <<allowAll, scenario, userOps, running, second>>

\* a namespace is deleted with the objects in it; the engine has no handler
\* for that, the deletions of the objects are delivered one by one
NamespaceDeleted ==
    /\ userOps < UserOps(scenario)
    /\ \E ns \in namespaces :
        LET gone == {key \in DOMAIN cluster : key[1] = ns}
        IN  /\ namespaces' = namespaces \ {ns}
            /\ cluster' = [key \in (DOMAIN cluster) \ gone |-> cluster[key]]
            /\ pending' = pending \cup gone
    /\ userOps' = userOps + 1
    /\ last' = [handler |-> "none", key |-> <<>>, calls |-> <<>>]
    /\ UNCHANGED <<store, targetsFrom, targetsTo, watchedTargets, watchedPatterns,
                   fakeVersion, allowAll, scenario,
                   running, second>>

\* the keys users write in a scenario
ScenarioKeys(sc) == {KeyOf(o) : o \in Menu(sc)}

\* the delete event of an object that is gone from the cluster and from the
\* store is delivered again: ObjectDeleted runs once more
DeliverDeletedAgain ==
    \E key \in ScenarioKeys(scenario) \ pending :
        /\ ~Has(cluster, key)
        /\ ~Has(store, key)
        /\ \E order \in Orders(WatchingSources) :
            \E e \in {ObjectDeleted(Engine, [ns |-> key[1], name |-> key[2]], order)} :
                /\ Commit(e, "ObjectDeleted", key)
                /\ pending' = pending \cup WrittenKeys(e)
        /\ UNCHANGED <<namespaces, allowAll, scenario, userOps, running, second>>

Next ==
    \/ UserWrite
    \/ UserDelete
    \/ DeliverAdded
    \/ DeliverDeleted
    \/ DeliverDeletedAgain
    \/ Resync
    \/ NamespaceCreated
    \/ NamespaceDeleted

Spec == Init /\ [][Next]_vars

\* the engine in a cluster where objects pull from a source
InitPull == InitIn({"pull"})

SpecPull == InitPull /\ [][Next]_vars

\* the engine in a cluster where sources push to targets
InitPush == InitIn({"push"})

SpecPush == InitPush /\ [][Next]_vars

\* the engine, with allow-all on or off, in a cluster where a source grants
\* or refuses a pull
InitOpen == InitIn({"open"})

SpecOpen == InitOpen /\ [][Next]_vars

\* the engine in a cluster where a pull is to happen once
InitOnce == InitIn({"once"})

SpecOnce == InitOnce /\ [][Next]_vars

\* the engine in a cluster where a push is to happen once
InitPushOnce == InitIn({"pushonce"})

SpecPushOnce == InitPushOnce /\ [][Next]_vars

\* the engine in a cluster where an object relays the data of another
SpecRelay == InitIn({"relay"}) /\ [][Next]_vars

\* an engine that starts in a cluster holding objects: the informers list
\* the objects and the namespaces, whose add events come in any order
InitOrder ==
    /\ scenario = "order"
    /\ allowAll = FALSE
    /\ namespaces \in {{"n1"}, {"n1", "n2"}}
    /\ cluster \in OrderConfigs
    /\ store = EmptyMap
    /\ targetsFrom = EmptyMap
    /\ targetsTo = EmptyMap
    /\ watchedTargets = EmptyMap
    /\ watchedPatterns = EmptyMap
    /\ fakeVersion = 4
    /\ pending = DOMAIN cluster
    /\ userOps = 0
    /\ last = [handler |-> "none", key |-> <<>>, calls |-> <<>>]
    /\ running = EmptyMap
    /\ second = EmptyMap

\* the events of an engine whose cluster no user touches
NextOrder ==
    \/ DeliverAdded
    \/ Resync
    \/ NamespaceCreated

SpecOrder == InitOrder /\ [][NextOrder]_vars

\* the clusters of such objects, no two at one key
SyncConfigs ==
    {[k \in {KeyOf(o) : o \in objs} |->
        [(CHOOSE o \in objs : KeyOf(o) = k) EXCEPT !.rv = NameRank(k[2])]]
     : objs \in {x \in SUBSET SyncMenu :
                    \A o1, o2 \in x : KeyOf(o1) = KeyOf(o2) => o1 = o2}}

\* a slip the list function guards against: the store is left to the add
\* events, and is empty when the first of them is handled
InitUnlisted ==
    /\ scenario = "sync"
    /\ allowAll = FALSE
    /\ namespaces \in {{"n1"}, {"n1", "n2"}}
    /\ cluster \in SyncConfigs
    /\ store = EmptyMap
    /\ targetsFrom = EmptyMap
    /\ targetsTo = EmptyMap
    /\ watchedTargets = EmptyMap
    /\ watchedPatterns = EmptyMap
    /\ fakeVersion = 4
    /\ pending = DOMAIN cluster
    /\ userOps = 0
    /\ last = [handler |-> "none", key |-> <<>>, calls |-> <<>>]
    /\ running = EmptyMap
    /\ second = EmptyMap

\* InitObjectStore, ListFunc: the informer lists the objects of the cluster
\* and the store is replaced by the list before any add event is handled;
\* the add events of the objects listed are all to come
InitSync ==
    /\ scenario = "sync"
    /\ allowAll = FALSE
    /\ namespaces \in {{"n1"}, {"n1", "n2"}}
    /\ cluster \in SyncConfigs
    /\ store = cluster
    /\ targetsFrom = EmptyMap
    /\ targetsTo = EmptyMap
    /\ watchedTargets = EmptyMap
    /\ watchedPatterns = EmptyMap
    /\ fakeVersion = 4
    /\ pending = DOMAIN cluster
    /\ userOps = 0
    /\ last = [handler |-> "none", key |-> <<>>, calls |-> <<>>]
    /\ running = EmptyMap
    /\ second = EmptyMap

\* an engine that starts in a cluster an earlier run has left
SpecSync == InitSync /\ [][NextOrder]_vars

\* the engine in a cluster where the target annotations of a source may
\* fail to parse
SpecParse == InitIn({"parse"}) /\ [][Next]_vars

\* an object that is both created by another and a source of its own
SpecOwned == InitIn({"owned"}) /\ [][Next]_vars

\* a pull target whose target annotations resolve to nothing
SpecEmpty == InitIn({"empty"}) /\ [][Next]_vars

\* a source whose permission annotations are malformed
SpecMalformed == InitIn({"malformed"}) /\ [][Next]_vars

\* the engine in a cluster where the source of a pull is deleted and made again
SpecAgain == InitIn({"again"}) /\ [][Next]_vars

\* the engine in a cluster where a source names itself among its targets
SpecSelf == InitIn({"self"}) /\ [][Next]_vars

\* the engine in a cluster where the annotations of a relay change
SpecRelayUpdate == InitIn({"relayupdate"}) /\ [][Next]_vars

\* the engine in a cluster that holds objects an earlier run created
SpecOrphan == InitIn({"orphan"}) /\ [][Next]_vars

\* the Go runtime has ended the process: a map was read or written by two
\* goroutines at once
Fatal == last.handler = "fatal error"

\* the event a controller is handling
Event(handler, key, object) == [handler |-> handler, key |-> key, object |-> object]

\* the object controller takes the add or update event of an object: the
\* store takes the object and ObjectAdded is entered
ObjectAddedBegins ==
    /\ ~Fatal
    /\ ~Has(running, "objectController")
    /\ \E key \in pending :
        /\ Has(cluster, key)
        /\ store' = Put(store, key, cluster[key])
        /\ pending' = pending \ {key}
        /\ running' = Put(running, "objectController",
                          Event("ObjectAdded", key, cluster[key]))
    /\ UNCHANGED <<cluster, namespaces, targetsFrom, targetsTo, watchedTargets,
                   watchedPatterns, fakeVersion, allowAll, scenario, userOps, last,
                   second>>

\* the object controller takes the delete event of an object: the store
\* drops the object and ObjectDeleted is entered
ObjectDeletedBegins ==
    /\ ~Fatal
    /\ ~Has(running, "objectController")
    /\ \E key \in pending :
        /\ ~Has(cluster, key)
        /\ store' = Del(store, key)
        /\ pending' = pending \ {key}
        /\ running' = Put(running, "objectController",
                          Event("ObjectDeleted", key, ZeroObject))
    /\ UNCHANGED <<cluster, namespaces, targetsFrom, targetsTo, watchedTargets,
                   watchedPatterns, fakeVersion, allowAll, scenario, userOps, last,
                   second>>

\* the namespace controller takes the add event of a namespace: the
\* namespace store takes it and NamespaceAdded is entered
NamespaceAddedBegins ==
    /\ ~Fatal
    /\ ~Has(running, "namespaceController")
    /\ \E ns \in ScenarioNamespaces(scenario) :
        /\ namespaces' = namespaces \cup {ns}
        /\ running' = Put(running, "namespaceController",
                          Event("NamespaceAdded", <<ns>>, ZeroObject))
    /\ UNCHANGED <<cluster, store, targetsFrom, targetsTo, watchedTargets,
                   watchedPatterns, fakeVersion, pending, allowAll, scenario,
                   userOps, last, second>>

\* the handler of the object controller does its work and returns
ObjectHandlerReturns ==
    /\ ~Fatal
    /\ Has(running, "objectController")
    /\ \E ev \in {running["objectController"]} :
        \E order \in Orders(WatchingSources) :
            \E e \in {IF ev.handler = "ObjectAdded"
                          THEN ObjectAdded(Engine, ev.object)
                          ELSE ObjectDeleted(Engine, [ns |-> ev.key[1], name |-> ev.key[2]],
                                             order)} :
                /\ Commit(e, ev.handler, ev.key)
                /\ pending' = pending \cup WrittenKeys(e)
    /\ running' = Del(running, "objectController")
    /\ UNCHANGED <<namespaces, allowAll, scenario, userOps, second>>

\* the handler of the namespace controller does its work and returns
NamespaceAddedReturns ==
    /\ ~Fatal
    /\ Has(running, "namespaceController")
    /\ \E ev \in {running["namespaceController"]} :
        \E order \in Orders(WatchingSources) :
            \E e \in {NamespaceAdded(Engine, ev.key[1], order)} :
                /\ Commit(e, ev.handler, ev.key)
                /\ pending' = pending \cup WrittenKeys(e)
    /\ running' = Del(running, "namespaceController")
    /\ UNCHANGED <<namespaces, allowAll, scenario, userOps, second>>

\* NamespaceAdded ranges over watchedTargets and watchedPatterns while a
\* handler of the object controller writes them: the runtime may end the
\* process
ConcurrentMapAccess ==
    /\ ~Fatal
    /\ DOMAIN running = {"namespaceController", "objectController"}
    /\ last' = [handler |-> "fatal error", key |-> <<>>, calls |-> <<>>]
    /\ UNCHANGED <<cluster, store, namespaces, targetsFrom, targetsTo, watchedTargets,
                   watchedPatterns, fakeVersion, pending, allowAll, scenario,
                   userOps, running, second>>

\* the events of an engine whose two controllers run as Start starts them
NextStart ==
    \/ UserWrite
    \/ UserDelete
    \/ NamespaceDeleted
    \/ ObjectAddedBegins
    \/ ObjectDeletedBegins
    \/ NamespaceAddedBegins
    \/ ObjectHandlerReturns
    \/ NamespaceAddedReturns
    \/ ConcurrentMapAccess

SpecStart == InitIn({"orphan"}) /\ [][NextStart]_vars

\* the instances of the engine that run: one, or two on the same cluster
Instances(sc) == IF sc \in {"two", "twopull"} THEN {1, 2} ELSE {1}

\* instances before their first event, InitStructure: each has a store and
\* indexes of its own and a place in the sequence of watch events
TwoStart ==
    [log |-> <<>>,
     engine |-> [i \in Instances(scenario) |->
                    [store |-> EmptyMap, targetsFrom |-> EmptyMap,
                     targetsTo |-> EmptyMap, watchedTargets |-> EmptyMap,
                     watchedPatterns |-> EmptyMap, at |-> 0]]]

Two == IF DOMAIN second = {} THEN TwoStart ELSE second

\* the state of instance i at the start of a handler: its own store and
\* indexes, the cluster of all
InstanceEngine(i) ==
    [cluster |-> cluster, store |-> Two.engine[i].store, namespaces |-> namespaces,
     targetsFrom |-> Two.engine[i].targetsFrom, targetsTo |-> Two.engine[i].targetsTo,
     watchedTargets |-> Two.engine[i].watchedTargets,
     watchedPatterns |-> Two.engine[i].watchedPatterns,
     fakeVersion |-> fakeVersion, calls |-> <<>>]

Succeeded(call) == call.ok

\* the watch events of the writes a handler made, in the order of the calls
EventsOf(e) ==
    LET done == SelectSeq(e.calls, Succeeded)
    IN  [j \in DOMAIN done |->
            IF done[j].op = "delete" \/ ~Has(e.cluster, done[j].key)
            THEN Event("ObjectDeleted", done[j].key, ZeroObject)
            ELSE Event("ObjectAdded", done[j].key, e.cluster[done[j].key])]

\* the watch events some instance has yet to handle, and the instances with
\* their places in them
Undelivered(log, engine) ==
    LET seen == CHOOSE m \in {engine[i].at : i \in DOMAIN engine} :
                    \A i \in DOMAIN engine : m <= engine[i].at
    IN  [log |-> SubSeq(log, seen + 1, Len(log)),
         engine |-> [i \in DOMAIN engine |-> [engine[i] EXCEPT !.at = @ - seen]]]

\* a user creates or replaces an object: every instance gets the event
TwoUserWrite ==
    /\ userOps < UserOps(scenario)
    /\ \E o \in Menu(scenario) :
        /\ o.ns \in namespaces
        /\ IF Has(cluster, KeyOf(o))
               THEN [cluster[KeyOf(o)] EXCEPT !.rv = 0] # o
               ELSE TRUE
        /\ cluster' = Put(cluster, KeyOf(o), [o EXCEPT !.rv = fakeVersion])
        /\ second' = [Two EXCEPT !.log = Append(@, Event("ObjectAdded", KeyOf(o),
                                                         [o EXCEPT !.rv = fakeVersion]))]
    /\ fakeVersion' = fakeVersion + 1
    /\ userOps' = userOps + 1
    /\ last' = [handler |-> "none", key |-> <<>>, calls |-> <<>>]
    /\ UNCHANGED <<store, namespaces, targetsFrom, targetsTo, watchedTargets,
                   watchedPatterns, pending, allowAll, scenario, running>>

\* a user deletes an object: every instance gets the event
TwoUserDelete ==
    /\ userOps < UserOps(scenario)
    /\ \E key \in DOMAIN cluster :
        /\ cluster' = Del(cluster, key)
        /\ second' = [Two EXCEPT !.log = Append(@, Event("ObjectDeleted", key, ZeroObject))]
    /\ userOps' = userOps + 1
    /\ last' = [handler |-> "none", key |-> <<>>, calls |-> <<>>]
    /\ UNCHANGED <<store, namespaces, targetsFrom, targetsTo, watchedTargets,
                   watchedPatterns, fakeVersion, pending, allowAll, scenario, running>>

\* the informer of instance i delivers the next watch event: the store of
\* the instance takes or drops the object of the event, the handler runs,
\* and what it wrote are events of every instance
InstanceDelivers(i) ==
    /\ i \in Instances(scenario)
    /\ Two.engine[i].at < Len(Two.log)
    /\ fakeVersion < MaxVersion
    /\ Two.log[Two.engine[i].at + 1].object.ann # NilAnnotations
    /\ \E ev \in {Two.log[Two.engine[i].at + 1]} :
        \E order \in Orders((DOMAIN Two.engine[i].watchedTargets)
                                \cup (DOMAIN Two.engine[i].watchedPatterns)) :
            \E e \in {IF ev.handler = "ObjectAdded"
                          THEN ObjectAdded([InstanceEngine(i) EXCEPT
                                               !.store = Put(@, ev.key, ev.object)],
                                           ev.object)
                          ELSE ObjectDeleted([InstanceEngine(i) EXCEPT
                                                 !.store = Del(@, ev.key)],
                                             [ns |-> ev.key[1], name |-> ev.key[2]],
                                             order)} :
                /\ cluster' = e.cluster
                /\ fakeVersion' = e.fakeVersion
                /\ second' = Undelivered(Two.log \o EventsOf(e),
                                          [Two.engine EXCEPT ![i] =
                                              [store |-> e.store,
                                               targetsFrom |-> e.targetsFrom,
                                               targetsTo |-> e.targetsTo,
                                               watchedTargets |-> e.watchedTargets,
                                               watchedPatterns |-> e.watchedPatterns,
                                               at |-> @.at + 1]])
                /\ last' = [handler |-> ev.handler, key |-> ev.key, calls |-> e.calls]
    /\ UNCHANGED <<store, namespaces, targetsFrom, targetsTo, watchedTargets,
                   watchedPatterns, pending, allowAll, scenario, userOps, running>>

\* the informer of instance i delivers the add event of an object whose
\* annotations are the nil map: the store takes the object, ObjectAdded
\* calls updateDeprecatedAnnotations, which finds no cached status and no
\* name to check and assigns the status: an assignment to an entry in a nil
\* map, a panic in the goroutine of the controller, which ends the process
InstancePanics(i) ==
    /\ i \in Instances(scenario)
    /\ Two.engine[i].at < Len(Two.log)
    /\ \E ev \in {Two.log[Two.engine[i].at + 1]} :
        /\ ev.handler = "ObjectAdded"
        /\ ev.object.ann = NilAnnotations
        /\ IF Has(Two.engine[i].store, ev.key)
               THEN Two.engine[i].store[ev.key] # ev.object
               ELSE TRUE
        /\ second' = [Two EXCEPT !.engine[i].store = Put(@, ev.key, ev.object)]
        /\ last' = [handler |-> "fatal error", key |-> ev.key, calls |-> <<>>]
    /\ UNCHANGED <<cluster, store, namespaces, targetsFrom, targetsTo, watchedTargets,
                   watchedPatterns, fakeVersion, pending, allowAll, scenario, userOps,
                   running>>

\* the events of one or two instances of the engine on one cluster
NextTwo ==
    \/ TwoUserWrite
    \/ TwoUserDelete
    \/ \E i \in {1, 2} : InstanceDelivers(i)

\* each informer goes on delivering the events it has
SpecTwo ==
    /\ InitIn({"one", "two", "onepull", "twopull"})
    /\ [][NextTwo]_vars
    /\ \A i \in {1, 2} : WF_vars(InstanceDelivers(i))

\* one instance, whose informer delivers each version of an object in its
\* turn, in a cluster with deprecated annotations
SpecDeprecated == InitIn({"deprecated"}) /\ [][NextTwo]_vars

\* the events of one instance in a cluster with objects without annotations
NextNil ==
    \/ TwoUserWrite
    \/ TwoUserDelete
    \/ InstanceDelivers(1)
    \/ InstancePanics(1)

SpecNil == InitIn({"nil"}) /\ [][NextNil]_vars

\* the periodic resync of instance i delivers an object of its store
\* again: ObjectAdded runs on it, and what it wrote are events
InstanceResyncs(i) ==
    /\ i \in Instances(scenario)
    /\ fakeVersion < MaxVersion
    /\ \E key \in DOMAIN Two.engine[i].store :
        \E e \in {ObjectAdded(InstanceEngine(i), Two.engine[i].store[key])} :
            /\ ListsBounded(e)
            /\ cluster' = e.cluster
            /\ fakeVersion' = e.fakeVersion
            /\ second' = Undelivered(Two.log \o EventsOf(e),
                                      [Two.engine EXCEPT ![i] =
                                          [store |-> e.store,
                                           targetsFrom |-> e.targetsFrom,
                                           targetsTo |-> e.targetsTo,
                                           watchedTargets |-> e.watchedTargets,
                                           watchedPatterns |-> e.watchedPatterns,
                                           at |-> @.at]])
            /\ last' = [handler |-> "ObjectAdded", key |-> key, calls |-> e.calls]
    /\ UNCHANGED <<store, namespaces, targetsFrom, targetsTo, watchedTargets,
                   watchedPatterns, pending, allowAll, scenario, userOps, running>>

\* the events of one instance whose informer delivers each event once, in
\* order, and any object of the store again at any time
NextRest ==
    \/ TwoUserWrite
    \/ TwoUserDelete
    \/ InstanceDelivers(1)
    \/ InstanceResyncs(1)

\* the informer goes on delivering the events it has; nothing forces a
\* resync
SpecRest ==
    /\ InitIn({"one", "onepull"})
    /\ [][NextRest]_vars
    /\ WF_vars(InstanceDelivers(1))

-----------------------------------------------------------------------------
\* Properties of the engine

\* the store holds the object of the cluster at key, in its current version
Synced(key) == Has(store, key) /\ Has(cluster, key) /\ store[key].rv = cluster[key].rv

\* the object asks for the data of the object at key source
PullsFrom(o, source) ==
    /\ Has(o.ann, ReplicationSourceAnnotation)
    /\ \/ o.ann[ReplicationSourceAnnotation] = source
       \/ <<o.ns>> \o o.ann[ReplicationSourceAnnotation] = source

\* the object permits replication to the namespace ns: it is no replica
\* itself, replication-allowed, when present, is true, and
\* replication-allowed-namespaces, when present, lists or matches ns
Permits(o, ns) ==
    /\ ~Has(o.ann, ReplicationSourceAnnotation)
    /\ Has(o.ann, ReplicationAllowedAnnotation) \/ Has(o.ann, AllowedNamespacesAnnotation)
    /\ Has(o.ann, ReplicationAllowedAnnotation)
        => o.ann[ReplicationAllowedAnnotation] = "true"
    /\ Has(o.ann, AllowedNamespacesAnnotation)
        => \E n \in o.ann[AllowedNamespacesAnnotation] :
                \/ n = ns
                \/ n \in DOMAIN PatternLang /\ ns \in PatternLang[n]

\* the object carries neither replicate-from nor replicated-by
PlainSource(o) ==
    ~Has(o.ann, ReplicationSourceAnnotation) /\ ~Has(o.ann, CreatedByAnnotation)

\* the replicate-to / replicate-to-namespaces annotations of the object name
\* the key target, literally or through a namespace pattern
Names(o, target) ==
    LET a   == o.ann
        to  == IF Has(a, ReplicationTargetsAnnotation)
               THEN a[ReplicationTargetsAnnotation] ELSE {}
        names == IF Has(a, ReplicationTargetsAnnotation)
                 THEN {x[1] : x \in {y \in to : Len(y) = 1}} ELSE {o.name}
        nss == IF Has(a, TargetNamespacesAnnotation)
               THEN a[TargetNamespacesAnnotation] ELSE {o.ns}
    IN  /\ Has(a, ReplicationTargetsAnnotation) \/ Has(a, TargetNamespacesAnnotation)
        /\ target # KeyOf(o)
        /\ \/ target \in to
           \/ /\ target[2] \in names
              /\ \E n \in nss :
                    \/ n = target[1]
                    \/ n \in DOMAIN PatternLang /\ target[1] \in PatternLang[n]

\* the object is the replica a push of the object source leaves
ReplicaOf(o, source) ==
    /\ Has(o.ann, CreatedByAnnotation)
    /\ o.ann[CreatedByAnnotation] = KeyOf(source)
    /\ Has(o.ann, ReplicatedVersionAnnotation)
    /\ o.ann[ReplicatedVersionAnnotation] = source.rv
    /\ Has(o.ann, ReplicationTimeAnnotation)
    /\ o.data = source.data

\* the step is a run of handler for the event of key
Handled(handler, key) == last'.handler = handler /\ last'.key = key

\* the calls of the handler that ran last
LastCalls == {last.calls[i] : i \in DOMAIN last.calls}

\* C1 (pull, in either order): whenever the store holds the current versions
\* of a target T carrying replicate-from=S and of a source S that permits
\* replication, so that ObjectAdded has run for both, T's data is S's data,
\* T's replicated-version is S's resourceVersion and T's replicated-at is
\* set; no further event is needed.
C1_PullInEitherOrder ==
    \A s \in DOMAIN store, t \in DOMAIN store :
        ( /\ Synced(s) /\ Synced(t)
          /\ Permits(store[s], t[1])
          /\ PullsFrom(store[t], s) )
        => /\ cluster[t].data = cluster[s].data
           /\ Has(cluster[t].ann, ReplicatedVersionAnnotation)
           /\ cluster[t].ann[ReplicatedVersionAnnotation] = cluster[s].rv
           /\ Has(cluster[t].ann, ReplicationTimeAnnotation)

\* the source was observed after the target, and its ObjectAdded replicated
C1_Witness ==
    /\ last.handler = "ObjectAdded" /\ last.key = S
    /\ \E c \in LastCalls : c.op = "update" /\ c.key = T /\ c.ok
    /\ Synced(S) /\ Synced(T)
    /\ Permits(store[S], T[1]) /\ PullsFrom(store[T], S)
    /\ cluster[T].data = cluster[S].data

\* C2 (push): ObjectAdded(S), for a source S carrying neither replicate-from
\* nor replicated-by whose annotations name T, when T's namespace exists and
\* no object exists at T, creates T with replicated-by = key(S),
\* replicated-version = S's resourceVersion, replicated-at set and S's data;
\* S needs no replication-allowed annotation.
C2_PushCreates ==
    [][\A s \in Keys, t \in Keys :
        ( /\ Handled("ObjectAdded", s)
          /\ Has(store', s)
          /\ PlainSource(store'[s])
          /\ Names(store'[s], t)
          /\ t[1] \in namespaces
          /\ ~Has(cluster, t) /\ ~Has(store, t) )
        => /\ Has(cluster', t)
           /\ ReplicaOf(cluster'[t], store'[s])
           /\ \E i \in DOMAIN last'.calls :
                /\ last'.calls[i].op = "install" /\ last'.calls[i].key = t
                /\ last'.calls[i].rv = 0 /\ last'.calls[i].ok]_vars

\* a source without replication-allowed has just created its target
C2_Witness ==
    /\ last.handler = "ObjectAdded" /\ last.key = S
    /\ \E c \in LastCalls : c.op = "install" /\ c.key = T /\ c.rv = 0 /\ c.ok
    /\ Has(store, S) /\ Names(store[S], T)
    /\ ~Has(store[S].ann, ReplicationAllowedAnnotation)
    /\ Has(cluster, T) /\ ReplicaOf(cluster[T], store[S])

\* the step is a run of a handler of the engine
EngineStep == userOps' = userOps /\ last'.handler # "none"

C4_NonOwnership ==
    [][\A k \in DOMAIN cluster :
        (userOps' = userOps /\ PlainSource(cluster[k]))
        => Has(cluster', k) /\ cluster'[k].data = cluster[k].data]_vars

\* the engine, holding a replica it created, called the port for an object
\* that a user had meanwhile made their own: the call was refused
C4_Witness ==
    \E c \in LastCalls :
        /\ ~c.ok
        /\ Has(cluster, c.key)
        /\ PlainSource(cluster[c.key])
        /\ Has(store, c.key)
        /\ Has(store[c.key].ann, CreatedByAnnotation)

\* C5 (pull clear on source deletion): ObjectDeleted(S) leaves every object T
\* that the store holds in its current version, that was replicated from S
\* (carries replicated-version) and declares replicate-from=S, in existence,
\* with empty data, no replicated-version, replicated-at set and its
\* replicate-from annotation kept.
C5_PullClearOnSourceDeletion ==
    [][\A s \in Keys, t \in DOMAIN store :
        ( /\ Handled("ObjectDeleted", s)
          /\ Synced(t)
          /\ PullsFrom(store[t], s)
          /\ Has(store[t].ann, ReplicatedVersionAnnotation) )
        => /\ Has(cluster', t)
           /\ cluster'[t].data = ""
           /\ ~Has(cluster'[t].ann, ReplicatedVersionAnnotation)
           /\ Has(cluster'[t].ann, ReplicationTimeAnnotation)
           /\ PullsFrom(cluster'[t], s)]_vars

\* the deletion of the source has just cleared the target
C5_Witness ==
    /\ last.handler = "ObjectDeleted" /\ last.key = S
    /\ \E c \in LastCalls : c.op = "clear" /\ c.key = T /\ c.ok
    /\ Has(cluster, T)
    /\ cluster[T].data = ""
    /\ ~Has(cluster[T].ann, ReplicatedVersionAnnotation)
    /\ PullsFrom(cluster[T], S)

\* C6 (source deletion removes pushed targets): ObjectDeleted(S) deletes,
\* with the resourceVersion of the store as precondition, every object
\* recorded in targetsTo[S] that carries replicated-by = key(S) and that the
\* store holds in its current version, and removes it from the store; when
\* that is the case of every object the store holds as created by S, none
\* remains.
C6_SourceDeletionRemovesTargets ==
    [][\A s \in DOMAIN targetsTo :
        Handled("ObjectDeleted", s)
        => /\ \A t \in Range(targetsTo[s]) :
                ( /\ Synced(t)
                  /\ Has(store[t].ann, CreatedByAnnotation)
                  /\ store[t].ann[CreatedByAnnotation] = s )
                => /\ ~Has(cluster', t)
                   /\ ~Has(store', t)
                   /\ \E i \in DOMAIN last'.calls :
                        /\ last'.calls[i].op = "delete" /\ last'.calls[i].key = t
                        /\ last'.calls[i].rv = store[t].rv /\ last'.calls[i].ok
           /\ (\A t \in DOMAIN store :
                    (Has(store[t].ann, CreatedByAnnotation)
                        /\ store[t].ann[CreatedByAnnotation] = s) => Synced(t))
                => \A t \in DOMAIN store' :
                    ~(Has(store'[t].ann, CreatedByAnnotation)
                        /\ store'[t].ann[CreatedByAnnotation] = s)]_vars

\* the deletion of the source has just deleted its target
C6_Witness ==
    /\ last.handler = "ObjectDeleted" /\ last.key = S
    /\ \E c \in LastCalls : c.op = "delete" /\ c.key = T /\ c.ok
    /\ ~Has(cluster, T) /\ ~Has(store, T)
    /\ ~Has(targetsTo, S)

\* the store holds no other object than the one at key source whose
\* annotations name the key target
OnlySource(source, target) ==
    \A u \in DOMAIN store : u # source => ~Names(store[u], target)

\* the step is ObjectDeleted(T) for a deleted target T created through
\* replicate-to by S, whose namespace exists and which S still names
TargetDeleted(s, t) ==
    /\ Handled("ObjectDeleted", t)
    /\ ~Has(cluster, t)
    /\ Has(store, t)
    /\ Has(store[t].ann, CreatedByAnnotation)
    /\ store[t].ann[CreatedByAnnotation] = s
    /\ t[1] \in namespaces
    /\ Has(store, s)
    /\ PlainSource(store[s])
    /\ Names(store[s], t)

\* the step leaves at T the replica of S
Recreated(s, t) == Has(cluster', t) /\ ReplicaOf(cluster'[t], store[s])

\* C7 (self-healing), as stated: whenever a target T created through
\* replicate-to is deleted while its namespace exists and its source S still
\* names T, ObjectDeleted(T) re-creates T with replicated-by = key(S), S's
\* data and replicated-version = S's resourceVersion.
C7_SelfHealingAsStated ==
    [][\A s \in Keys, t \in Keys : TargetDeleted(s, t) => Recreated(s, t)]_vars

\* C7 (self-healing), amended: whenever a target T created through
\* replicate-to is deleted while its namespace exists and its source S still
\* names T, ObjectDeleted(T) re-creates T as the replica of one of the
\* sources whose annotations name T (replicated-by, data and
\* replicated-version are those of that source): of S when S is the only one.
C7_SelfHealing ==
    [][\A s \in Keys, t \in Keys :
        TargetDeleted(s, t)
        => \E u \in DOMAIN store :
            /\ Names(store[u], t)
            /\ Recreated(u, t)
            /\ OnlySource(s, t) => u = s]_vars

\* the deletion of a target has just made its source, which names it through
\* a pattern of namespaces, create it again
C7_Witness ==
    /\ last.handler = "ObjectDeleted" /\ last.key = T
    /\ \E c \in LastCalls : c.op = "install" /\ c.key = T /\ c.rv = 0 /\ c.ok
    /\ Has(store, S) /\ Names(store[S], T) /\ OnlySource(S, T)
    /\ Has(store[S].ann, TargetNamespacesAnnotation)
    /\ Has(cluster, T) /\ ReplicaOf(cluster[T], store[S])

\* every event has been delivered
Quiescent == pending = {}

C9_NoCreateWithoutNamespace ==
    \A c \in LastCalls : (c.op = "install" /\ c.rv = 0) => c.key[1] \in namespaces

\* a source naming a target in a namespace that does not exist has been
\* handled: nothing was created
C9_Witness ==
    /\ last.handler = "ObjectAdded" /\ last.key = S
    /\ Has(store, S) /\ Names(store[S], T)
    /\ T[1] \notin namespaces
    /\ last.calls = <<>>

\* every event is delivered, the store holds a source S that names ns/t and
\* the namespace store holds ns
SourceAndNamespace(s, t) ==
    /\ Quiescent
    /\ PlainSource(store[s])
    /\ Names(store[s], t)
    /\ t[1] \in namespaces

\* ns/t is in place as the replica of S
InPlace(s, t) == Has(cluster, t) /\ ReplicaOf(cluster[t], store[s])

\* no object made by a user occupies the key: an object there carries
\* replicated-by
Free(t) == Has(cluster, t) => Has(cluster[t].ann, CreatedByAnnotation)

\* C10 (source and namespace in either order), as stated: for a source S
\* naming ns/t, literally or through a namespace pattern, once ObjectAdded(S)
\* and NamespaceAdded(ns) have run and every event is delivered, ns/t exists
\* with S's data and replicated-by = key(S).
C10_AsStated ==
    \A s \in DOMAIN store, t \in Keys : SourceAndNamespace(s, t) => InPlace(s, t)

\* C10 (source and namespace in either order), amended: the same, when no
\* object made by a user occupies ns/t, and for one of the sources that name
\* ns/t: ns/t exists with the data of that source and replicated-by naming
\* it, and that source is S when S is the only one.
C10_SourceAndNamespace ==
    \A s \in DOMAIN store, t \in Keys :
        (SourceAndNamespace(s, t) /\ Free(t))
        => \E u \in DOMAIN store :
            /\ Names(store[u], t)
            /\ InPlace(u, t)
            /\ OnlySource(s, t) => u = s

\* a namespace matching the pattern of the source was added after the engine
\* started, and the target is in place there
C10_Witness ==
    /\ Quiescent
    /\ Has(store, S)
    /\ Names(store[S], <<"n3", "t">>)
    /\ "n3" \in namespaces
    /\ OnlySource(S, <<"n3", "t">>)
    /\ InPlace(S, <<"n3", "t">>)

\* the calls of the handler that runs in the step
CallsOfStep == {last'.calls[i] : i \in DOMAIN last'.calls}

\* C11 (chain blockage): no handler issues an update that copies the data of
\* an object carrying replicate-from into an object that pulls from it, with
\* allow-all on as well as when the object carries replication-allowed=true;
\* an object that pulls from it and was never replicated stays without
\* replicated-version.
C11_ChainBlockage ==
    [][\A t \in DOMAIN store', s \in DOMAIN store' :
        ( /\ EngineStep
          /\ PullsFrom(store'[t], s)
          /\ Has(store'[s].ann, ReplicationSourceAnnotation) )
        => /\ \A c \in CallsOfStep : ~(c.op = "update" /\ c.key = t)
           /\ (Has(cluster', t) /\ Has(cluster, t)
                    /\ ~Has(cluster[t].ann, ReplicatedVersionAnnotation))
                => /\ ~Has(cluster'[t].ann, ReplicatedVersionAnnotation)
                   /\ cluster'[t].data = cluster[t].data]_vars

\* a source that is itself a replica and permits replication (by its
\* annotation or by allow-all) was handled with its dependent in the store:
\* no call was made and the dependent is not replicated
C11_Witness ==
    /\ last.handler = "ObjectAdded" /\ last.key = S
    /\ last.calls = <<>>
    /\ Synced(S) /\ Synced(T)
    /\ PullsFrom(store[T], S)
    /\ Has(store[S].ann, ReplicationSourceAnnotation)
    /\ allowAll \/ Has(store[S].ann, ReplicationAllowedAnnotation)
    /\ Has(targetsFrom, S) /\ T \in Range(targetsFrom[S])
    /\ ~Has(cluster[T].ann, ReplicatedVersionAnnotation)
    /\ cluster[T].data = "x"

\* the replication-allowed annotations of the object, and allow-all, accept a
\* pull into the namespace ns
Accepts(o, ns) ==
    /\ \/ allowAll
       \/ Has(o.ann, ReplicationAllowedAnnotation)
       \/ Has(o.ann, AllowedNamespacesAnnotation)
    /\ Has(o.ann, ReplicationAllowedAnnotation)
        => o.ann[ReplicationAllowedAnnotation] = "true"
    /\ Has(o.ann, AllowedNamespacesAnnotation)
        => \E n \in o.ann[AllowedNamespacesAnnotation] :
                \/ n = ns
                \/ n \in DOMAIN PatternLang /\ ns \in PatternLang[n]

\* the step is ObjectAdded(S) for a source S that refuses the namespace of
\* T, a pull target of S that the store holds in its current version
Revoked(s, t) ==
    /\ Handled("ObjectAdded", s)
    /\ Has(store, t) /\ Synced(t)
    /\ PullsFrom(store[t], s)
    /\ Has(store', s)
    /\ ~Accepts(store'[s], t[1])

\* C16 (revoking permission clears): ObjectAdded(S), for a source S that has
\* become disallowing (replication-allowed=false, T's namespace not matched
\* by replication-allowed-namespaces, or no permission annotation with
\* allow-all off), clears a pull target T that was replicated: its data
\* becomes empty and its replicated-version is removed; a target that was
\* never replicated gets no call and is left as it is.
C16_RevokingClears ==
    [][\A s \in Keys, t \in Keys :
        Revoked(s, t)
        => IF Has(store[t].ann, ReplicatedVersionAnnotation)
           THEN /\ Has(cluster', t)
                /\ cluster'[t].data = ""
                /\ ~Has(cluster'[t].ann, ReplicatedVersionAnnotation)
                /\ \E c \in CallsOfStep : c.op = "clear" /\ c.key = t /\ c.ok
           ELSE /\ cluster'[t] = cluster[t]
                /\ \A c \in CallsOfStep : c.key # t]_vars

\* the source has just refused by replication-allowed=false and the
\* replicated target was cleared
C16_Witness ==
    /\ last.handler = "ObjectAdded" /\ last.key = S
    /\ \E c \in LastCalls : c.op = "clear" /\ c.key = T /\ c.ok
    /\ Has(store, S)
    /\ Has(store[S].ann, ReplicationAllowedAnnotation)
    /\ store[S].ann[ReplicationAllowedAnnotation] = "false"
    /\ Has(cluster, T) /\ cluster[T].data = ""
    /\ ~Has(cluster[T].ann, ReplicatedVersionAnnotation)
    /\ PullsFrom(cluster[T], S)

C17_WitnessRefused ==
    /\ allowAll
    /\ last.handler = "ObjectAdded"
    /\ Synced(S) /\ Synced(T)
    /\ PullsFrom(store[T], S)
    /\ Has(store[S].ann, AllowedNamespacesAnnotation)
    /\ ~Accepts(store[S], "n2")
    /\ ~Has(cluster[T].ann, ReplicatedVersionAnnotation)

\* the object carries replicate-once=true
OnceTrue(o) ==
    Has(o.ann, ReplicateOnceAnnotation) /\ o.ann[ReplicateOnceAnnotation] = "true"

\* the replicate-once-version of the object as a number, 0 when it has none
OnceVersion(o) ==
    IF Has(o.ann, ReplicateOnceVersionAnnotation)
            /\ o.ann[ReplicateOnceVersionAnnotation] \in DOMAIN SemverTable
    THEN SemverTable[o.ann[ReplicateOnceVersionAnnotation]]
    ELSE 0

\* the step changes the data of T, which the store holds in its current
\* version as replicated from S, while S exists and S or T carries
\* replicate-once=true
OnceDataChanged(s, t) ==
    /\ EngineStep
    /\ Has(store, t) /\ Synced(t)
    /\ PullsFrom(store[t], s)
    /\ Has(store[t].ann, ReplicatedVersionAnnotation)
    /\ Has(store', s)
    /\ OnceTrue(store'[s]) \/ OnceTrue(store[t])
    /\ Has(cluster', t)
    /\ cluster'[t].data # cluster[t].data

\* C12 (once semantics for a pull): for a target T already replicated from S
\* (T carries replicated-version), when S or T carries replicate-once=true,
\* no handler changes T's data unless the replicate-once-version of S is
\* strictly greater than the one recorded on T (none counting as the
\* lowest); T then has S's data and records S's replicate-once-version, so
\* that a lower version of S causes no update afterwards.
C12_PullOnce ==
    [][\A s \in Keys, t \in Keys :
        OnceDataChanged(s, t)
        => /\ OnceVersion(store'[s]) > OnceVersion(store[t])
           /\ cluster'[t].data = store'[s].data
           /\ Has(cluster'[t].ann, ReplicateOnceVersionAnnotation)
           /\ cluster'[t].ann[ReplicateOnceVersionAnnotation]
                = store'[s].ann[ReplicateOnceVersionAnnotation]]_vars

\* the replicate-once-version of the source was lowered after the target had
\* recorded the higher one: the source was handled and made no call
C12_Witness ==
    /\ last.handler = "ObjectAdded" /\ last.key = S
    /\ last.calls = <<>>
    /\ Synced(S) /\ Synced(T)
    /\ PullsFrom(store[T], S)
    /\ OnceTrue(store[S])
    /\ OnceVersion(store[S]) = SemverTable["1.0.0"]
    /\ OnceVersion(store[T]) = SemverTable["1.1.0"]
    /\ Has(store[T].ann, ReplicatedVersionAnnotation)
    /\ cluster[T].data = "c"

\* the replicate-once-version of the source was raised: the target, which
\* had recorded the lower one, has just been updated
C12_WitnessRaised ==
    /\ last.handler = "ObjectAdded" /\ last.key = S
    /\ \E c \in LastCalls : c.op = "update" /\ c.key = T /\ c.ok
    /\ OnceTrue(store[S])
    /\ OnceVersion(store[S]) = SemverTable["1.1.0"]
    /\ cluster[T].ann[ReplicateOnceVersionAnnotation] = "1.1.0"
    /\ cluster[T].data = "c"
    /\ targetsFrom[S] = <<T>>

\* the two annotations a push reconciles on a frozen target
PermissionAnnotations == {ReplicationAllowedAnnotation, AllowedNamespacesAnnotation}

\* the annotation a is the same, or absent, on both objects
SameAnnotation(o1, o2, a) ==
    /\ Has(o1.ann, a) <=> Has(o2.ann, a)
    /\ Has(o1.ann, a) => o1.ann[a] = o2.ann[a]

\* the step is ObjectAdded(S) for a push source S carrying
\* replicate-once=true, and the store holds the current version of a target
\* T of S that S owns and has replicated to
PushedOnce(s, t) ==
    /\ Handled("ObjectAdded", s)
    /\ Has(store', s)
    /\ OnceTrue(store'[s])
    /\ Names(store'[s], t)
    /\ Has(store, t) /\ Synced(t)
    /\ Has(store[t].ann, CreatedByAnnotation)
    /\ store[t].ann[CreatedByAnnotation] = s
    /\ Has(store[t].ann, ReplicatedVersionAnnotation)

\* C13 (once semantics for a push): ObjectAdded(S), for a push source S
\* carrying replicate-once=true and an existing target T owned by S, changes
\* T's data only when the replicate-once-version of S is strictly greater
\* than the one recorded on T; otherwise T keeps its data and all its
\* annotations but replication-allowed and replication-allowed-namespaces,
\* which are made those of S, and T carries the managed labels if written.
C13_PushOnce ==
    [][\A s \in Keys, t \in Keys :
        PushedOnce(s, t)
        => /\ Has(cluster', t)
           /\ IF OnceVersion(store'[s]) > OnceVersion(store[t])
              THEN /\ cluster'[t].data = store'[s].data
                   /\ SameAnnotation(cluster'[t], store'[s], ReplicateOnceVersionAnnotation)
              ELSE /\ cluster'[t].data = cluster[t].data
                   /\ \A a \in AllAnnotations \ PermissionAnnotations :
                        SameAnnotation(cluster'[t], cluster[t], a)
                   /\ \A a \in PermissionAnnotations :
                        SameAnnotation(cluster'[t], store'[s], a)
                   /\ cluster'[t] # cluster[t] => cluster'[t].labels = CopyLabels]_vars

\* the data and the permission of the source changed, not its
\* replicate-once-version: the target got the permission and kept its data
C13_Witness ==
    /\ last.handler = "ObjectAdded" /\ last.key = S
    /\ \E c \in LastCalls : c.op = "install" /\ c.key = T /\ c.rv # 0 /\ c.ok
    /\ Has(store, S) /\ OnceTrue(store[S])
    /\ store[S].data = "c"
    /\ Has(cluster, T)
    /\ cluster[T].data \in {"a", "b"}
    /\ Has(cluster[T].ann, ReplicationAllowedAnnotation)
    /\ cluster[T].ann[ReplicatedVersionAnnotation] # cluster[S].rv

\* the key the replicate-from annotation of the object names
SourceOf(o) ==
    IF Len(o.ann[ReplicationSourceAnnotation]) = 2 THEN o.ann[ReplicationSourceAnnotation]
    ELSE <<o.ns>> \o o.ann[ReplicationSourceAnnotation]

\* the object pulls from some object and names the key t as its target
Relay(o, t) == Has(o.ann, ReplicationSourceAnnotation) /\ Names(o, t)

\* the object carries replicated-by = m and replicate-from = s
RelayTarget(o, m, s) ==
    /\ Has(o.ann, CreatedByAnnotation)
    /\ o.ann[CreatedByAnnotation] = m
    /\ PullsFrom(o, s)

\* the keys of the store whose object carries replicated-by and replicate-from
RelayTargets ==
    {t \in DOMAIN store : /\ Synced(t)
                          /\ Has(store[t].ann, CreatedByAnnotation)
                          /\ Has(store[t].ann, ReplicationSourceAnnotation)}

\* every event is delivered, the store holds the relay and the namespace of
\* its target exists: the target is there, owned by the relay and pulling
\* from the source of the relay, whose data it has when the source permits
RelayInPlace(m, t) ==
    ( /\ Quiescent
      /\ Relay(store[m], t)
      /\ t[1] \in namespaces )
    => /\ Has(cluster, t)
       /\ RelayTarget(cluster[t], m, SourceOf(store[m]))
       /\ \A s \in {SourceOf(store[m])} \cap DOMAIN cluster :
            Permits(cluster[s], t[1]) => cluster[t].data = cluster[s].data

\* C14 (relay life cycle): for a relay M carrying replicate-from=S and
\* replicate-to=T, every create of T carries replicated-by = key(M) and
\* replicate-from = key(S), and once every event is delivered T exists with
\* these annotations wherever M and T's namespace do, in whatever order S,
\* M and T's namespace were observed; ObjectDeleted(S) leaves a T that the
\* store holds in its current version in the cluster, with no data;
\* ObjectDeleted(M) deletes it.
C14_RelayLifeCycle ==
    [][/\ \A m \in DOMAIN store', t \in Keys :
            /\ RelayInPlace(m, t)'
            /\ Relay(store'[m], t)
                => \A c \in CallsOfStep :
                    (c.op = "install" /\ c.rv = 0 /\ c.key = t /\ c.ok)
                    => /\ RelayTarget(cluster'[t], m, SourceOf(store'[m]))
                       /\ cluster'[t].data = ""
       /\ \A t \in RelayTargets :
            /\ Handled("ObjectDeleted", SourceOf(store[t]))
                => Has(cluster', t) /\ cluster'[t].data = ""
            /\ Handled("ObjectDeleted", store[t].ann[CreatedByAnnotation])
                => ~Has(cluster', t)]_vars

\* the target of the relay had taken the data of the source, and the
\* deletion of the source has just cleared it
C14_Witness ==
    /\ last.handler = "ObjectDeleted" /\ last.key = S
    /\ \E c \in LastCalls : c.op = "clear" /\ c.key = T /\ c.ok
    /\ Has(store, U) /\ Relay(store[U], T)
    /\ Has(cluster, T) /\ RelayTarget(cluster[T], U, S)
    /\ cluster[T].data = ""

\* the deletion of the relay has just deleted its target
C14_WitnessDeleted ==
    /\ last.handler = "ObjectDeleted" /\ last.key = U
    /\ \E c \in LastCalls : c.op = "delete" /\ c.key = T /\ c.ok
    /\ ~Has(cluster, T)

\* the store holds, as a relay, the object that created the object at key t;
\* every event is delivered
TargetOfRelay(t) ==
    /\ Quiescent
    /\ Has(cluster[t].ann, CreatedByAnnotation)
    /\ Has(store, cluster[t].ann[CreatedByAnnotation])
    /\ Relay(store[cluster[t].ann[CreatedByAnnotation]], t)

\* the source of the relay that created the object at key t exists and
\* permits replication to the namespace of t
UpstreamPermits(t) ==
    \E s \in {SourceOf(store[cluster[t].ann[CreatedByAnnotation]])} \cap DOMAIN cluster :
        Permits(cluster[s], t[1])

\* the data of the source of the relay that created the object at key t
UpstreamData(t) == cluster[SourceOf(store[cluster[t].ann[CreatedByAnnotation]])].data

\* the handler of the step writes no object at the key of a relay, and
\* gives no object the data of a relay
RelayDataStays ==
    \A m \in DOMAIN store' :
        (\E t \in Keys : Relay(store'[m], t))
        => /\ \A c \in CallsOfStep : c.key # m
           /\ EngineStep /\ Has(cluster, m)
                => Has(cluster', m) /\ cluster'[m].data = cluster[m].data
           /\ \A k \in DOMAIN cluster' \ {m} :
                ( /\ EngineStep
                  /\ Has(cluster, k) => cluster'[k].data # cluster[k].data )
                => cluster'[k].data # store'[m].data

\* C15 (relay data isolation), as stated: no handler writes a relay or gives
\* another object the data of a relay; once every event is delivered, the
\* target of a relay holds the data of the upstream source when that source
\* exists and permits replication to the target's namespace, and empty data
\* otherwise.
C15_AsStated ==
    [][/\ RelayDataStays
       /\ \A t \in DOMAIN cluster' :
            TargetOfRelay(t)'
            => (IF UpstreamPermits(t) THEN cluster[t].data = UpstreamData(t)
                ELSE cluster[t].data = "")']_vars

\* the handler of the step leaves the object at key as it was, or absent
Untouched(key) ==
    /\ Has(cluster', key) <=> Has(cluster, key)
    /\ Has(cluster, key)
        => /\ cluster'[key].data = cluster[key].data
           /\ cluster'[key].rv = cluster[key].rv

\* C18 (version guard against a stale view): every call of the object port
\* carries the resourceVersion the store holds for the key when the call is
\* made, so that an update, a clear and a delete carry one and an install is
\* a create exactly when the store holds no object; the call succeeds exactly
\* when the cluster has that resourceVersion for the key (none, for a
\* create), and a handler none of whose calls on a key succeeds leaves the
\* cluster object at that key with its data and resourceVersion.
C18_VersionGuard ==
    [][\A c \in CallsOfStep :
        /\ c.rv = c.held
        /\ c.op \in {"update", "clear", "delete"} => c.rv # 0
        /\ c.ok <=> c.found = c.rv
        /\ (\A d \in CallsOfStep : d.key = c.key => ~d.ok) => Untouched(c.key)]_vars

\* the target changed after the store took it: the delete a handler made
\* with the version of the store was refused, and the target is as it was
C18_Witness ==
    \E c \in LastCalls :
        /\ c.op = "delete"
        /\ ~c.ok
        /\ c.rv = c.held /\ c.found # 0 /\ c.found # c.rv
        /\ Has(cluster, c.key) /\ cluster[c.key].rv = c.found

\* a user made the target before the store saw it: the create was refused
C18_WitnessCreate ==
    \E c \in LastCalls :
        c.op = "install" /\ c.rv = 0 /\ ~c.ok /\ c.held = 0 /\ c.found # 0

\* the target changed after the store took it: the update or clear was refused
C18_WitnessUpdate ==
    \E c \in LastCalls : c.op \in {"update", "clear"} /\ ~c.ok /\ c.found # c.rv

\* an install over an existing target carried the version of the store
C18_WitnessInstall ==
    \E c \in LastCalls : c.op = "install" /\ c.rv # 0 /\ c.ok /\ c.rv = c.held

\* C19 (no self-target): no key is among the targets recorded for it in
\* targetsTo, and no install made on behalf of a source, which carries the
\* key of the source as replicated-by, addresses that key; this also when a
\* qualified target name, a target namespace or a namespace pattern of the
\* source resolves to its own key.
C19_NoSelfTarget ==
    /\ \A s \in DOMAIN targetsTo : s \notin Range(targetsTo[s])
    /\ \A c \in LastCalls :
        (c.op = "install" /\ Has(c.ann, CreatedByAnnotation))
        => c.ann[CreatedByAnnotation] # c.key

\* the namespace of a source whose pattern matches it was added again: the
\* source has its target in the other namespace, not itself
C19_Witness ==
    /\ last.handler = "NamespaceAdded" /\ last.key = <<"n1">>
    /\ Has(store, S)
    /\ Has(store[S].ann, TargetNamespacesAnnotation)
    /\ ".*" \in store[S].ann[TargetNamespacesAnnotation]
    /\ Has(targetsTo, S)
    /\ Range(targetsTo[S]) = {<<"n2", "s">>}
    /\ Has(cluster, <<"n2", "s">>)

\* a source that names its own key and another one has been handled: only
\* the other one was installed
C19_WitnessLiteral ==
    /\ last.handler = "ObjectAdded" /\ last.key = S
    /\ Has(store, S)
    /\ Has(store[S].ann, ReplicationTargetsAnnotation)
    /\ S \in store[S].ann[ReplicationTargetsAnnotation]
    /\ \A c \in LastCalls : c.key = <<"n2", "s">>
    /\ \E c \in LastCalls : c.op = "install" /\ c.ok
    /\ targetsTo[S] = <<(<<"n2", "s">>)>>

\* the keys of the objects users made: they carry no replicated-by
UserKeys == {k \in DOMAIN cluster : ~Has(cluster[k].ann, CreatedByAnnotation)}

\* the objects of users that name the key t as a target
Sources(t) == {s \in UserKeys : Names(cluster[s], t)}

\* the first of them in the order of the keys
FirstSource(t) ==
    CHOOSE s \in Sources(t) : \A u \in Sources(t) : KeyRank(s) <= KeyRank(u)

\* the data of the object at key s when it exists and permits replication to
\* the namespace ns
Pulled(s, ns, data) == Has(cluster, s) /\ Permits(cluster[s], ns) /\ data = cluster[s].data

\* the object at key s does not exist or does not permit replication to ns
Denied(s, ns) == ~(Has(cluster, s) /\ Permits(cluster[s], ns))

\* the data a user gave the object at key t
UserData(t) ==
    {o.data : o \in {x \in OrderMenu :
        /\ KeyOf(x) = t
        /\ Has(x.ann, ReplicationSourceAnnotation)
            <=> Has(cluster[t].ann, ReplicationSourceAnnotation)}}

\* the object a user made at key t is as the user made it, with the data of
\* its source when it pulls from one that permits
UserSettled(t) ==
    IF Has(cluster[t].ann, ReplicationSourceAnnotation) /\ ~\E x \in Keys : Names(cluster[t], x)
    THEN \/ Pulled(SourceOf(cluster[t]), t[1], cluster[t].data)
         \/ Denied(SourceOf(cluster[t]), t[1]) /\ cluster[t].data \in UserData(t)
    ELSE cluster[t].data \in UserData(t)

\* the object at key t is the target of the source at key s: it carries
\* replicated-by = s and the data of s, or, s being a relay, the data of the
\* source of s when that one permits and none otherwise
OwnedBy(t, s) ==
    /\ Has(cluster, t)
    /\ Has(cluster[t].ann, CreatedByAnnotation)
    /\ cluster[t].ann[CreatedByAnnotation] = s
    /\ IF Has(cluster[s].ann, ReplicationSourceAnnotation)
       THEN \/ Pulled(SourceOf(cluster[s]), t[1], cluster[t].data)
            \/ Denied(SourceOf(cluster[s]), t[1]) /\ cluster[t].data = ""
       ELSE cluster[t].data = cluster[s].data

TwoSources ==
    /\ Quiescent
    /\ "n2" \in namespaces
    /\ Sources(T) = {S, U}
    /\ cluster[S].ann[ReplicationTargetsAnnotation] = {T}
    /\ ~Has(cluster[U].ann, ReplicationSourceAnnotation)

C20_WitnessFirst == TwoSources /\ OwnedBy(T, S) /\ cluster[T].data = "a"

\* the namespace of the target of a pattern came after the source
C20_WitnessNamespace ==
    /\ last.handler = "NamespaceAdded" /\ last.key = <<"n2">>
    /\ \E c \in LastCalls : c.op = "install" /\ c.key = T /\ c.ok
    /\ Sources(T) = {S}
    /\ OwnedBy(T, S)

\* the dependents recorded for the key s, none when s has no entry
Dependents(index, s) == IF Has(index, s) THEN Range(index[s]) ELSE {}

\* C21 (resurrection): ObjectDeleted(S) keeps in targetsFrom[S] every
\* dependent of the store that still carries replicate-from=S; and
\* ObjectAdded(S), for an S the store did not hold and that permits, leaves
\* every dependent recorded in targetsFrom[S] that the store holds in its
\* current version and that carries replicate-from=S with the data of S and
\* the resourceVersion of S as replicated-version, no event on the dependent
\* being needed.
C21_Resurrection ==
    [][\A s \in DOMAIN targetsFrom : \A t \in Dependents(targetsFrom, s) :
        (Has(store, t) /\ PullsFrom(store[t], s))
        => /\ Handled("ObjectDeleted", s) => t \in Dependents(targetsFrom', s)
           /\ ( /\ Handled("ObjectAdded", s)
                /\ ~Has(store, s)
                /\ Permits(store'[s], t[1])
                /\ Synced(t) )
              => /\ cluster'[t].data = store'[s].data
                 /\ Has(cluster'[t].ann, ReplicatedVersionAnnotation)
                 /\ cluster'[t].ann[ReplicatedVersionAnnotation] = store'[s].rv]_vars

\* the deletion of the source has just cleared its dependent and kept it
\* in targetsFrom
C21_Witness ==
    /\ last.handler = "ObjectDeleted" /\ last.key = S
    /\ \E c \in LastCalls : c.op = "clear" /\ c.key = T /\ c.ok
    /\ ~Has(store, S)
    /\ Has(store, T) /\ PullsFrom(store[T], S)
    /\ T \in Dependents(targetsFrom, S)

\* after four user operations the source is there with other data, and its
\* add event alone has given them to the dependent
C21_WitnessAdded ==
    /\ userOps = MaxUserOpsLong
    /\ last.handler = "ObjectAdded" /\ last.key = S
    /\ \E c \in LastCalls : c.op = "update" /\ c.key = T /\ c.ok /\ c.data = "b"
    /\ cluster[T].data = "b"

\* the store holds the current version of the object at key t, which
\* carries replicated-by = s
OwnTarget(s, t) ==
    /\ Synced(t)
    /\ Has(store[t].ann, CreatedByAnnotation)
    /\ store[t].ann[CreatedByAnnotation] = s

\* C22 (change of a source's target annotations): ObjectAdded(S), for a
\* source S with an entry in targetsTo, deletes the targets recorded there
\* that the new annotations of S name no more, and deletes nothing else;
\* it leaves those still named in place as replicas of the new S; and it
\* creates the newly named ones whose namespace exists; this for the
\* targets owned by S that the store holds in their current version, and
\* for the new keys where no object is.
C22_TargetsChange ==
    [][\A s \in DOMAIN targetsTo :
        (Handled("ObjectAdded", s) /\ PlainSource(store'[s]))
        => /\ \A t \in Range(targetsTo[s]) :
                OwnTarget(s, t)
                => IF Names(store'[s], t)
                   THEN Has(cluster', t) /\ ReplicaOf(cluster'[t], store'[s])
                   ELSE ~Has(cluster', t) /\ ~Has(store', t)
           /\ \A c \in CallsOfStep :
                c.op = "delete"
                => c.key \in Range(targetsTo[s]) /\ ~Names(store'[s], c.key)
           /\ \A t \in Keys :
                ( /\ Names(store'[s], t)
                  /\ t[1] \in namespaces
                  /\ ~Has(cluster, t) /\ ~Has(store, t) )
                => Has(cluster', t) /\ ReplicaOf(cluster'[t], store'[s])]_vars

\* the source named n2/t and n3/t through a pattern and names n2/t alone
\* now: n3/t was deleted, n2/t was installed over with the new data
C22_Witness ==
    /\ last.handler = "ObjectAdded" /\ last.key = S
    /\ \E c \in LastCalls : c.op = "delete" /\ c.key = <<"n3", "t">> /\ c.ok
    /\ \E c \in LastCalls : c.op = "install" /\ c.key = T /\ c.rv # 0 /\ c.ok
    /\ Names(store[S], T) /\ ~Names(store[S], <<"n3", "t">>)
    /\ ~Has(cluster, <<"n3", "t">>)
    /\ ReplicaOf(cluster[T], store[S])

\* the source named n2/t alone and names n3/t too now: n3/t was created
C22_WitnessCreated ==
    /\ last.handler = "ObjectAdded" /\ last.key = S
    /\ \E c \in LastCalls : c.op = "install" /\ c.key = <<"n3", "t">> /\ c.rv = 0 /\ c.ok
    /\ \A c \in LastCalls : c.op # "delete"
    /\ Has(cluster, T) /\ ReplicaOf(cluster[T], store[S])

\* the step is ObjectAdded for the object at key t, in the version the
\* cluster has, and that object carries replicated-by = s
AddedTargetOf(s, t) ==
    /\ Handled("ObjectAdded", t)
    /\ Has(cluster, t)
    /\ Has(store, t) => store[t].rv = cluster[t].rv
    /\ Has(cluster[t].ann, CreatedByAnnotation)
    /\ cluster[t].ann[CreatedByAnnotation] = s

\* C23 (orphan removal): ObjectAdded on an object carrying replicated-by=S
\* deletes the object when the store does not hold S or when the
\* annotations of the S it holds do not name the object as a target; when
\* the store holds S and S names the object, the handler makes no delete
\* call on it and the object stays.
C23_OrphanRemoval ==
    [][\A s \in Keys, t \in Keys :
        AddedTargetOf(s, t)
        => IF Has(store, s) /\ Names(store[s], t)
           THEN /\ Has(cluster', t)
                /\ \A c \in CallsOfStep : ~(c.op = "delete" /\ c.key = t)
           ELSE /\ ~Has(cluster', t)
                /\ ~Has(store', t)
                /\ \E c \in CallsOfStep : c.op = "delete" /\ c.key = t /\ c.ok]_vars

\* the add event of a target whose source is gone from the store has been
\* handled: the target was deleted
C23_Witness ==
    /\ last.handler = "ObjectAdded" /\ last.key = T
    /\ Len(last.calls) = 1
    /\ \A i \in DOMAIN last.calls :
           last.calls[i].op = "delete" /\ last.calls[i].key = T /\ last.calls[i].ok
    /\ ~Has(cluster, T) /\ ~Has(store, T)
    /\ ~Has(store, S) /\ ~Has(store, U)

\* the add event of a target whose source names it no longer has been
\* handled: the target was deleted
C23_WitnessChanged ==
    /\ last.handler = "ObjectAdded" /\ last.key = T
    /\ \E i \in DOMAIN last.calls :
           last.calls[i].op = "delete" /\ last.calls[i].key = T /\ last.calls[i].ok
    /\ ~Has(cluster, T)
    /\ Has(store, S) /\ ~Names(store[S], T)

\* the add event of a target whose source names it has been handled: the
\* target is in place
C23_WitnessKept ==
    /\ last.handler = "ObjectAdded" /\ last.key = T
    /\ Has(cluster, T) /\ Has(cluster[T].ann, CreatedByAnnotation)
    /\ cluster[T].ann[CreatedByAnnotation] = S
    /\ Has(store, S) /\ Names(store[S], T)

\* C24 (handlers serialized): at most one controller is inside a handler at
\* a time, so NamespaceAdded never runs while ObjectAdded or ObjectDeleted
\* runs.
C24_AsStated == Cardinality(DOMAIN running) <= 1

\* every instance has handled every watch event
TwoQuiescent == \A i \in DOMAIN Two.engine : Two.engine[i].at = Len(Two.log)

\* what the user objects ask for at T: the replica of S when S names T, and
\* no object with replicated-by otherwise; the data of S in an object that
\* pulls from S when S permits, and otherwise the data the user gave it or
\* none
OneOutcome ==
    /\ IF Has(cluster, S) /\ Names(cluster[S], T)
       THEN Has(cluster, T) /\ ReplicaOf(cluster[T], cluster[S])
       ELSE ~(Has(cluster, T) /\ Has(cluster[T].ann, CreatedByAnnotation))
    /\ (Has(cluster, T) /\ PullsFrom(cluster[T], S))
       => IF Has(cluster, S) /\ Permits(cluster[S], T[1])
          THEN /\ cluster[T].data = cluster[S].data
               /\ Has(cluster[T].ann, ReplicatedVersionAnnotation)
               /\ cluster[T].ann[ReplicatedVersionAnnotation] = cluster[S].rv
          ELSE cluster[T].data \in {"x", ""}

\* C25 (several replicas): with one instance or with two, each with a store
\* and indexes of its own and handling the same watch events, the instances
\* end up with every event handled and nothing more to write, and the
\* cluster they leave is what the user objects ask for: T is the replica of
\* S when S names it, and is absent otherwise; a T that pulls from S has the
\* data of S when S permits, and the user's data or none otherwise.
C25_SeveralReplicas == (<>[]TwoQuiescent) /\ [](TwoQuiescent => OneOutcome)

\* two instances have handled every event, T is in place and each instance
\* holds it; the one that came second had its write refused
C25_Witness ==
    /\ scenario = "two"
    /\ TwoQuiescent
    /\ Has(cluster, S) /\ Has(cluster, T) /\ ReplicaOf(cluster[T], cluster[S])
    /\ \A i \in {1, 2} : Has(Two.engine[i].store, T)
                           /\ Two.engine[i].store[T].rv = cluster[T].rv
    /\ cluster[T].ann[ReplicatedVersionAnnotation] > 1

\* an instance had a write refused that the other had made before
C25_WitnessRefused ==
    /\ scenario = "two"
    /\ \E i \in DOMAIN last.calls : ~last.calls[i].ok /\ last.calls[i].found # last.calls[i].rv

\* two instances have handled every event and T, which pulls from S, has
\* the data of the second version of S
C25_WitnessPull ==
    /\ scenario = "twopull"
    /\ TwoQuiescent
    /\ Has(cluster, S) /\ Has(cluster, T) /\ PullsFrom(cluster[T], S)
    /\ cluster[T].data = cluster[S].data
    /\ cluster[S].rv > 1
    /\ \A i \in {1, 2} : Has(Two.engine[i].store, T)
                           /\ Two.engine[i].store[T].rv = cluster[T].rv

\* C26 (no error is fatal), as stated: a handler in which a port call
\* returned an error goes on without touching an object that is not there:
\* every port call of a handler addresses an object by a key of the cluster
\* and, when it installs a replica, names a source by such a key.
C26_AsStated ==
    \A c \in LastCalls :
        /\ c.key \in Keys
        /\ Has(c.ann, CreatedByAnnotation) => c.ann[CreatedByAnnotation] \in Keys

\* the watch event the one instance handles in the step: the next of its
\* sequence
NextEvent == Two.log[Two.engine[1].at + 1]

\* the annotations with every deprecated name replaced by the new one, which
\* keeps its value when it is there already
Renamed(ann) ==
    LET old == (DOMAIN ann) \cap (DOMAIN DeprecatedAnnotations)
    IN  [a \in ((DOMAIN ann) \ old) \cup {DeprecatedAnnotations[o] : o \in old} |->
            IF a \in DOMAIN ann THEN ann[a]
            ELSE ann[CHOOSE o \in old : DeprecatedAnnotations[o] = a]]

\* the places, among the calls of the step, of the updates that write the
\* object o back: its own data under its renamed annotations
WriteBacks(o) ==
    {i \in DOMAIN last'.calls :
        /\ last'.calls[i].op = "update"
        /\ last'.calls[i].key = KeyOf(o)
        /\ last'.calls[i].rv = o.rv
        /\ last'.calls[i].data = o.data
        /\ last'.calls[i].ann = Renamed(o.ann)}

\* the object asks for nothing but, at most, a renaming: it neither pulls
\* nor pushes, no object made it and none depends on it
Bystander(o) ==
    /\ PlainSource(o)
    /\ \A x \in Keys : ~Names(o, x)
    /\ ~Has(Two.engine[1].targetsFrom, KeyOf(o))
    /\ ~Has(Two.engine[1].targetsTo, KeyOf(o))

\* C29 (deprecated annotations): ObjectAdded on an object with a deprecated
\* annotation name, and no unknown one, first makes one update call on it,
\* with the name replaced by the new one and the data of the object, and no
\* second such call; on an object without deprecated names, the rewritten
\* one among them, it makes no such call; it makes no other call when the
\* object asks for nothing else, and no call at all on an object with an
\* unknown name under the prefix.
C29_DeprecatedAnnotations ==
    [][(Two.engine[1].at < Len(Two.log) /\ last'.handler = "ObjectAdded")
        => \A o \in {NextEvent.object} :
            IF Has(o.ann, UnknownAnnotation) THEN last'.calls = <<>>
            ELSE IF (DOMAIN o.ann) \cap (DOMAIN DeprecatedAnnotations) # {}
            THEN /\ WriteBacks(o) = {1}
                 /\ Bystander(o) => Len(last'.calls) = 1
            ELSE /\ WriteBacks(o) = {}
                 /\ Bystander(o) => last'.calls = <<>>]_vars

\* an object with a deprecated name was written back, the write was
\* accepted and the cluster holds it under the new name with its data
C29_Witness ==
    /\ last.handler = "ObjectAdded" /\ last.key = S
    /\ Len(last.calls) = 1
    /\ \A i \in DOMAIN last.calls :
        /\ last.calls[i].op = "update" /\ last.calls[i].ok
        /\ last.calls[i].data = "b"
        /\ Has(last.calls[i].ann, ReplicatedVersionAnnotation)
        /\ DOMAIN last.calls[i].ann \cap DOMAIN DeprecatedAnnotations = {}
    /\ Has(cluster, S) /\ cluster[S].data = "b"
    /\ Has(cluster[S].ann, ReplicatedVersionAnnotation)
    /\ DOMAIN cluster[S].ann \cap DOMAIN DeprecatedAnnotations = {}

\* the rewritten object was delivered in its turn: no call
C29_WitnessAgain ==
    /\ last.handler = "ObjectAdded" /\ last.key = S /\ last.calls = <<>>
    /\ Has(cluster, S) /\ cluster[S].data = "b" /\ cluster[S].rv > 1
    /\ Has(Two.engine[1].store, S) /\ Two.engine[1].store[S].rv = cluster[S].rv
    /\ Two.log = <<>>

\* an object with an unknown name under the prefix was delivered: no call
C29_WitnessUnknown ==
    /\ last.handler = "ObjectAdded" /\ last.key = T /\ last.calls = <<>>
    /\ Has(Two.engine[1].store, T)
    /\ Has(Two.engine[1].store[T].ann, UnknownAnnotation)
    /\ Has(Two.engine[1].store, S)

\* the process of instance i has ended in ObjectAdded: its store has the
\* object of the event, the handler never returned
Panicked(i) ==
    /\ Two.engine[i].at < Len(Two.log)
    /\ \E ev \in {Two.log[Two.engine[i].at + 1]} :
        /\ ev.handler = "ObjectAdded"
        /\ Has(Two.engine[i].store, ev.key)
        /\ Two.engine[i].store[ev.key] = ev.object

\* C27 (an object without annotations is harmless), as stated: ObjectAdded
\* on an object whose annotations map is nil returns, without a crash: no
\* instance has ended in the handler of an event.
C27_AsStated == \A i \in DOMAIN Two.engine : ~Panicked(i)

\* C28 (giving up ownership): once the store holds the current version of
\* an object that carries no replicated-by, as it does after a user took
\* the annotation off a target the engine had made and the update was
\* delivered, no handler makes a call on the object and the cluster keeps
\* it as it is, whichever event the handler runs for: an update or the
\* deletion of the former source, a namespace, or the object again.
C28_GivingUpOwnership ==
    [][EngineStep
        => \A t \in DOMAIN store :
            (Synced(t) /\ ~Has(store[t].ann, CreatedByAnnotation))
            => /\ \A c \in CallsOfStep : c.key # t
               /\ Has(cluster', t)
               /\ cluster'[t] = cluster[t]]_vars

\* S pushed to T, a user then wrote T anew without replicated-by, the
\* update was delivered and S was deleted: the handler of the deletion made
\* no call and T is as the user wrote it
C28_Witness ==
    /\ last.handler = "ObjectDeleted" /\ last.key = S
    /\ last.calls = <<>>
    /\ userOps = 3
    /\ ~Has(cluster, S)
    /\ Synced(T)
    /\ cluster[T].rv = 3
    /\ cluster[T].data = "p"
    /\ ~Has(cluster[T].ann, CreatedByAnnotation)

\* the object at key t is a target made from the object at key s, which
\* the cluster holds and which names t still
ListedWithSource(s, t) ==
    /\ Has(cluster, t) /\ Has(cluster, s)
    /\ Has(cluster[t].ann, CreatedByAnnotation)
    /\ cluster[t].ann[CreatedByAnnotation] = s
    /\ Names(cluster[s], t)

\* C30 (initial sync): the store holds every object of the initial list
\* from the start, before any add event is handled, and as long as the
\* cluster holds it in that version; and a target made by the engine whose
\* source is in the list and names it still is deleted by no handler, in
\* whichever order the add events of the two are handled.
C30_InitialSync ==
    /\ [](\A key \in DOMAIN cluster :
            cluster[key].rv < 4 => Has(store, key) /\ store[key].rv = cluster[key].rv)
    /\ [][\A s \in Keys, t \in Keys :
            ListedWithSource(s, t)
            => /\ \A c \in CallsOfStep : ~(c.op = "delete" /\ c.key = t)
               /\ Has(cluster', t)]_vars

\* the add event of the target T was handled while that of its source S
\* was still to come: no call was made and T is in place
C30_Witness ==
    /\ last.handler = "ObjectAdded" /\ last.key = T
    /\ S \in pending /\ T \notin pending
    /\ targetsTo = EmptyMap /\ watchedTargets = EmptyMap
    /\ ListedWithSource(S, T)
    /\ \A c \in LastCalls : c.op # "delete"
    /\ cluster[T].data = "a"

\* the replicate-to / replicate-to-namespaces annotations of the object do
\* not parse: a name that is no name, or a pattern that does not compile
Unparsable(o) ==
    \/ /\ Has(o.ann, ReplicationTargetsAnnotation)
       /\ \E x \in o.ann[ReplicationTargetsAnnotation] :
            Len(x) = 1 /\ x[1] # "" /\ ~validName(x[1])
    \/ /\ Has(o.ann, TargetNamespacesAnnotation)
       /\ \E ns \in o.ann[TargetNamespacesAnnotation] :
            ns # "" /\ ~validName(ns) /\ ~RegexCompiles(ns)

\* C31 (parse error on a source), as stated: when ObjectAdded has run for
\* a source whose target annotations do not parse, it has made no call and
\* the indexes targetsTo, watchedTargets and watchedPatterns have no entry
\* under the key of the source.
C31_AsStated ==
    (/\ last.handler = "ObjectAdded"
     /\ Has(store, last.key)
     /\ Unparsable(store[last.key]))
    => /\ last.calls = <<>>
       /\ ~Has(targetsTo, last.key)
       /\ ~Has(watchedTargets, last.key)
       /\ ~Has(watchedPatterns, last.key)

\* the sources the engine watches that the store holds and whose
\* annotations name the key k
LiveSources(k) ==
    {s \in WatchingSources : Has(store, s) /\ s # k /\ Names(store[s], k)}

\* C32 (take-over of a freed location): when ObjectDeleted runs for a key
\* whose namespace exists and which several live sources name, the handler
\* makes exactly one call: an install at the key, which succeeds and
\* carries in replicated-by the key of one of these sources; the cluster
\* then holds the object of that source at the key.
C32_TakeOver ==
    [][\A k \in Keys :
        (/\ Handled("ObjectDeleted", k)
         /\ k[1] \in namespaces
         /\ Cardinality(LiveSources(k)) >= 2)
        => /\ Len(last'.calls) = 1
           /\ \A i \in DOMAIN last'.calls :
                /\ last'.calls[i].op = "install"
                /\ last'.calls[i].key = k
                /\ last'.calls[i].ok
                /\ Has(last'.calls[i].ann, CreatedByAnnotation)
                /\ last'.calls[i].ann[CreatedByAnnotation] \in LiveSources(k)
                /\ Has(cluster', k)
                /\ Has(cluster'[k].ann, CreatedByAnnotation)
                /\ cluster'[k].ann[CreatedByAnnotation]
                        = last'.calls[i].ann[CreatedByAnnotation]
                /\ cluster'[k].data
                        = store[last'.calls[i].ann[CreatedByAnnotation]].data]_vars

\* T, which S and U both name, was deleted and ObjectDeleted(T) made U
\* install it anew
C32_Witness ==
    /\ last.handler = "ObjectDeleted" /\ last.key = T
    /\ Len(last.calls) = 1
    /\ Cardinality(LiveSources(T)) = 2
    /\ Has(cluster, T)
    /\ Has(cluster[T].ann, CreatedByAnnotation)
    /\ cluster[T].ann[CreatedByAnnotation] = U
    /\ cluster[T].data = "c"

\* the same, and the source that installed is S
C32_WitnessOther ==
    /\ last.handler = "ObjectDeleted" /\ last.key = T
    /\ Len(last.calls) = 1
    /\ Cardinality(LiveSources(T)) = 2
    /\ Has(cluster, T)
    /\ Has(cluster[T].ann, CreatedByAnnotation)
    /\ cluster[T].ann[CreatedByAnnotation] = S
    /\ cluster[T].data \in {"a", "b"}

\* the call is an install, by a push source without replicate-from, over a
\* target that the store holds when the call is made, that this source made
\* and that carries replicate-from
OverRelayTarget(c) ==
    /\ c.op = "install"
    /\ Has(store, c.key)
    /\ c.held = store[c.key].rv
    /\ Has(store[c.key].ann, ReplicationSourceAnnotation)
    /\ Has(store[c.key].ann, CreatedByAnnotation)
    /\ Has(c.ann, CreatedByAnnotation)
    /\ c.ann[CreatedByAnnotation] = store[c.key].ann[CreatedByAnnotation]
    /\ Has(store', c.ann[CreatedByAnnotation])
    /\ ~Has(store'[c.ann[CreatedByAnnotation]].ann, ReplicationSourceAnnotation)

\* C33 (installObject over a target that carries replicate-from), as
\* stated: an install by a push source without replicate-from over its own
\* target carrying replicate-from writes the data the target has and keeps
\* the annotations of the target but for replication-allowed and
\* replication-allowed-namespaces.
C33_AsStated ==
    [][\A c \in CallsOfStep :
        OverRelayTarget(c)
        => /\ c.data = store[c.key].data
           /\ \A a \in (DOMAIN c.ann \cup DOMAIN store[c.key].ann)
                        \ {ReplicationAllowedAnnotation, AllowedNamespacesAnnotation,
                           CheckedAnnotation} :
                /\ Has(c.ann, a) /\ Has(store[c.key].ann, a)
                /\ c.ann[a] = store[c.key].ann[a]]_vars

\* C33, amended: an install by a push source without replicate-from over
\* its own target carrying replicate-from is an install from scratch: it
\* writes the data of the source under the resourceVersion of the target,
\* with replicated-by, replicated-at and the resourceVersion of the source
\* in replicated-version, and without replicate-from.
C33_DataInstall ==
    [][\A c \in CallsOfStep :
        OverRelayTarget(c)
        => /\ c.data = store'[c.ann[CreatedByAnnotation]].data
           /\ c.rv = store[c.key].rv
           /\ ~Has(c.ann, ReplicationSourceAnnotation)
           /\ Has(c.ann, ReplicationTimeAnnotation)
           /\ Has(c.ann, ReplicatedVersionAnnotation)
           /\ c.ann[ReplicatedVersionAnnotation]
                = store'[c.ann[CreatedByAnnotation]].rv]_vars

\* U, a relay of S that had pushed to T, was written anew without
\* replicate-from: ObjectAdded(U) installed its own data over T
C33_Witness ==
    /\ last.handler = "ObjectAdded" /\ last.key = U
    /\ Has(store, U) /\ ~Has(store[U].ann, ReplicationSourceAnnotation)
    /\ store[U].rv >= 3
    /\ Len(last.calls) = 1
    /\ \A i \in DOMAIN last.calls :
        /\ last.calls[i].op = "install" /\ last.calls[i].ok
        /\ last.calls[i].key = T
        /\ last.calls[i].held > 0
        /\ last.calls[i].data = "m"
    /\ Has(cluster, T) /\ cluster[T].data = "m"
    /\ ~Has(cluster[T].ann, ReplicationSourceAnnotation)
    /\ cluster[T].ann[ReplicatedVersionAnnotation] = store[U].rv

\* C34 (no stale data after retargeting a relay), as stated: once every
\* event is delivered, the target of a relay whose upstream source is
\* absent, or does not permit replication to the namespace of the target,
\* holds empty data, whatever the relay was and pushed before.
C34_AsStated ==
    \A t \in DOMAIN cluster :
        (TargetOfRelay(t) /\ Synced(t) /\ ~UpstreamPermits(t))
        => cluster[t].data = ""

\* C35 (quiescence): the cluster has accepted at most two writes for each
\* user operation, the user's and one of the engine, so that the writes of
\* the engine are finitely many (and no delivery waits for the bound on
\* resourceVersions); once the informer has no event left, a handler run
\* for an object delivered again makes no call; and in every run, from some
\* point on, no handler makes a call any more.
C35_Quiescence ==
    /\ [](fakeVersion <= 1 + 2 * userOps /\ fakeVersion < MaxVersion)
    /\ [][(Two.log = <<>> /\ EngineStep) => last'.calls = <<>>]_vars
    /\ <>[][last'.calls = <<>>]_vars

\* the engine wrote T, the event of that write was handled and made no
\* call, and no event is left
C35_Witness ==
    /\ Two.log = <<>>
    /\ last.handler = "ObjectAdded" /\ last.key = T /\ last.calls = <<>>
    /\ Has(cluster, T) /\ Has(cluster, S)
    /\ Has(Two.engine[1].store, T) /\ Two.engine[1].store[T].rv = cluster[T].rv
    /\ cluster[T].rv > cluster[S].rv
    /\ Has(cluster[T].ann, ReplicatedVersionAnnotation)
    /\ cluster[T].ann[ReplicatedVersionAnnotation] = cluster[S].rv
    /\ userOps = UserOps(scenario)

\* the store holds for key the object of resourceVersion rv, none when rv = 0
StoreHolds(key, rv) ==
    IF rv = 0 THEN ~Has(store', key)
    ELSE Has(store', key) /\ store'[key].rv = rv

\* the calls the handler of the step made on the key of its i-th call
\* after that call
LaterCalls(i) ==
    {j \in DOMAIN last'.calls : j > i /\ last'.calls[j].key = last'.calls[i].key}

\* the store holds the object the cluster has at key, up to the annotation
\* that memoizes the validation
StoreCurrent(key) ==
    /\ Has(store', key) /\ Has(cluster', key)
    /\ store'[key].rv = cluster'[key].rv
    /\ store'[key].data = cluster'[key].data
    /\ Del(store'[key].ann, CheckedAnnotation) = Del(cluster'[key].ann, CheckedAnnotation)

\* C36 (a failed mutation changes nothing locally): when an update, clear,
\* install or delete call of a handler fails, the store holds for its key
\* the version it held when the call was made, until the next call on that
\* key and, if there is none, when the handler returns; after a call that
\* succeeded the store holds the object written, or no object after a
\* delete.
C36_FailedCallKeepsStore ==
    [][\A i \in DOMAIN last'.calls :
        LET c == last'.calls[i]
            next == {j \in LaterCalls(i) : \A k \in LaterCalls(i) : j <= k}
        IN  /\ ~c.ok => /\ \A j \in next : last'.calls[j].held = c.held
                        /\ next = {} => StoreHolds(c.key, c.held)
            /\ (c.ok /\ next = {})
                => IF c.op = "delete" THEN ~Has(store', c.key)
                   ELSE StoreCurrent(c.key)]_vars

\* a delete was refused, the store held the target and holds it still
C36_Witness ==
    \E c \in LastCalls :
        /\ c.op = "delete" /\ ~c.ok /\ c.held # 0
        /\ Has(store, c.key) /\ store[c.key].rv = c.held
        /\ Has(cluster, c.key) /\ cluster[c.key].rv # c.held

\* an update or a clear was refused, the store holds the version it held
C36_WitnessUpdate ==
    \E c \in LastCalls :
        /\ c.op \in {"update", "clear"} /\ ~c.ok
        /\ Has(store, c.key) /\ store[c.key].rv = c.held

\* a create was refused, the store holds no object at the key
C36_WitnessInstall ==
    \E c \in LastCalls :
        c.op = "install" /\ ~c.ok /\ c.held = 0 /\ ~Has(store, c.key)

\* the object the handler of the step worked on at key carries replicated-by:
\* the store holds it so, or the handler deleted it as a target
OwnedAt(key) ==
    \/ Has(store', key) /\ Has(store'[key].ann, CreatedByAnnotation)
    \/ \E c \in CallsOfStep : c.op = "delete" /\ c.key = key

\* nothing is recorded for key as a push source
NotASource(key) ==
    /\ ~Has(watchedTargets', key)
    /\ ~Has(watchedPatterns', key)
    /\ ~Has(targetsTo', key)

\* the handler of the step installs nothing on behalf of key
NoTargetFrom(key) ==
    \A c \in CallsOfStep :
        (c.op = "install" /\ Has(c.ann, CreatedByAnnotation))
            => c.ann[CreatedByAnnotation] # key

\* C37 (an engine-owned object is never a push source): ObjectAdded run for
\* an object that carries replicated-by, and NamespaceAdded for every such
\* object of the store, leaves no watchedTargets, watchedPatterns or
\* targetsTo entry under its key and installs no target on its behalf.
C37_AsStated ==
    [][/\ \A k \in Keys :
            (Handled("ObjectAdded", k) /\ EngineStep /\ OwnedAt(k))
                => NotASource(k) /\ NoTargetFrom(k)
       /\ (last'.handler = "NamespaceAdded" /\ EngineStep)
            => \A k \in DOMAIN store' :
                Has(store'[k].ann, CreatedByAnnotation)
                    => NotASource(k) /\ NoTargetFrom(k)]_vars

\* C38 (the sentinel stays inside): the annotations of every update, clear
\* and install call of a handler do not contain "#checked#", the annotation
\* under which the engine memoizes the validation in the objects of its
\* store.
C38_SentinelStaysInside ==
    \A c \in LastCalls :
        c.op \in {"update", "clear", "install"} => ~Has(c.ann, CheckedAnnotation)

\* an update or a clear was made for an object that the store holds with
\* the sentinel; the call was refused, so the store holds it still
C38_Witness ==
    \E c \in LastCalls :
        /\ c.op \in {"update", "clear"} /\ ~c.ok
        /\ Has(store, c.key) /\ store[c.key].rv = c.held
        /\ Has(store[c.key].ann, CheckedAnnotation)
        /\ ~Has(c.ann, CheckedAnnotation)
        /\ \A a \in DOMAIN c.ann \ {ReplicationTimeAnnotation, ReplicatedVersionAnnotation} :
                Has(store[c.key].ann, a) /\ store[c.key].ann[a] = c.ann[a]

\* an install was accepted on behalf of a source that the store holds with
\* the sentinel
C38_WitnessInstall ==
    \E c \in LastCalls :
        /\ c.op = "install" /\ c.ok
        /\ Has(c.ann, CreatedByAnnotation)
        /\ Has(store, c.ann[CreatedByAnnotation])
        /\ Has(store[c.ann[CreatedByAnnotation]].ann, CheckedAnnotation)
        /\ Has(cluster, c.key) /\ ~Has(cluster[c.key].ann, CheckedAnnotation)

\* the object carries replicate-to or replicate-to-namespaces, they parse,
\* and they resolve to no target and no pattern
EmptyTargets(o) ==
    /\ Has(o.ann, ReplicationTargetsAnnotation) \/ Has(o.ann, TargetNamespacesAnnotation)
    /\ ~Unparsable(o)
    /\ \A k \in Keys : ~Names(o, k)

\* C39 (an empty target set is not a push), as stated: an object of the
\* store whose target annotations resolve to nothing has no entry in
\* watchedTargets, watchedPatterns and targetsTo, and when it carries
\* replicate-from = S, S permits, and the store holds the current versions
\* of both, its data is the data of S and its replicated-version the
\* resourceVersion of S.
C39_AsStated ==
    \A t \in DOMAIN store :
        (Synced(t) /\ EmptyTargets(store[t]))
        => /\ ~Has(watchedTargets, t) /\ ~Has(watchedPatterns, t) /\ ~Has(targetsTo, t)
           /\ \A s \in DOMAIN store :
                (Synced(s) /\ Permits(store[s], t[1]) /\ PullsFrom(store[t], s))
                => /\ cluster[t].data = cluster[s].data
                   /\ Has(cluster[t].ann, ReplicatedVersionAnnotation)
                   /\ cluster[t].ann[ReplicatedVersionAnnotation] = cluster[s].rv

\* the replication-allowed annotation of the object is no boolean
NonBoolean(o) ==
    /\ Has(o.ann, ReplicationAllowedAnnotation)
    /\ o.ann[ReplicationAllowedAnnotation] \notin
            {"true", "1", "t", "T", "TRUE", "True", "false", "0", "f", "F", "FALSE", "False"}

\* an element of replication-allowed-namespaces is a pattern that does not
\* compile
Uncompilable(o) ==
    /\ Has(o.ann, AllowedNamespacesAnnotation)
    /\ \E ns \in o.ann[AllowedNamespacesAnnotation] :
            ns # "" /\ ns \notin Namespaces \cup ObjNames /\ ns \notin DOMAIN PatternLang

\* the replication-allowed annotation of the object is a boolean false
SaysFalse(o) ==
    /\ Has(o.ann, ReplicationAllowedAnnotation)
    /\ o.ann[ReplicationAllowedAnnotation] \in {"false", "0", "f", "F", "FALSE", "False"}

\* the handler of the step leaves every object that pulls from s as it is
\* and makes no call for it
DependentsUntouched(s) ==
    \A t \in DOMAIN cluster :
        PullsFrom(cluster[t], s)
            => /\ Has(cluster', t) /\ cluster'[t] = cluster[t]
               /\ \A c \in CallsOfStep : c.key # t

\* C40 (a malformed permission annotation is an error and not a refusal),
\* as stated: a handler that finds in the store a source with a non-boolean
\* replication-allowed or an uncompilable replication-allowed-namespaces
\* pattern makes no call for the objects that pull from it and leaves their
\* data and annotations as they are.
C40_AsStated ==
    [][\A s \in DOMAIN store' :
        (EngineStep /\ (NonBoolean(store'[s]) \/ Uncompilable(store'[s])))
            => DependentsUntouched(s)]_vars

\* C40, with the order of the checks: the same when replication-allowed is
\* no boolean, or when a pattern does not compile and replication-allowed
\* is not a boolean false; a boolean false is looked at before the patterns
\* and is a refusal.
C40_MalformedIsAnError ==
    [][\A s \in DOMAIN store' :
        (/\ EngineStep
         /\ \/ NonBoolean(store'[s])
            \/ Uncompilable(store'[s]) /\ ~SaysFalse(store'[s]))
            => DependentsUntouched(s)]_vars

\* T was replicated from S; S then got a replication-allowed that is no
\* boolean, ObjectAdded ran for it and T has the data it had
C40_Witness ==
    /\ last.handler = "ObjectAdded" /\ last.key = S /\ last.calls = <<>>
    /\ Synced(S) /\ NonBoolean(store[S])
    /\ Synced(T) /\ PullsFrom(cluster[T], S)
    /\ Has(cluster[T].ann, ReplicatedVersionAnnotation)
    /\ cluster[T].ann[ReplicatedVersionAnnotation] < cluster[S].rv
    /\ cluster[T].data = "a" /\ cluster[S].data = "b"

\* the same with a pattern that does not compile next to a namespace that
\* is T's
C40_WitnessPattern ==
    /\ last.handler = "ObjectAdded" /\ last.key = S /\ last.calls = <<>>
    /\ Synced(S) /\ Uncompilable(store[S]) /\ ~SaysFalse(store[S])
    /\ Synced(T) /\ PullsFrom(cluster[T], S)
    /\ Has(cluster[T].ann, ReplicatedVersionAnnotation)
    /\ cluster[T].ann[ReplicatedVersionAnnotation] < cluster[S].rv
    /\ cluster[T].data = "a" /\ cluster[S].data = "c"

\* T never was replicated and ObjectAdded ran for it with the malformed S
\* in the store
C40_WitnessNever ==
    /\ last.handler = "ObjectAdded" /\ last.key = T /\ last.calls = <<>>
    /\ Synced(S) /\ (NonBoolean(store[S]) \/ Uncompilable(store[S]))
    /\ Synced(T) /\ PullsFrom(cluster[T], S)
    /\ ~Has(cluster[T].ann, ReplicatedVersionAnnotation)
    /\ cluster[T].data = "x"

=============================================================================
